---- MODULE Spec2Model ----
(***************************************************************************)
(* interactive-cli-helper: the listener tree (CliListener), its match      *)
(* algorithm and the line dispatcher of CliHelper.                         *)
(*                                                                         *)
(* A JavaScript string is a sequence of one-character strings; JavaScript  *)
(* values are records tagged by their type.  Texts that are only ever      *)
(* printed (never matched) keep their fixed parts as single elements.      *)
(***************************************************************************)
EXTENDS Integers, Sequences, FiniteSets, TLC

\* ------------------------------------------------------------------ bounds
\* number of command() calls of the configuration phase
MaxCommands == 2
\* number of lines the user submits
MaxLines == 2
\* number of lines submitted to the program that is watched for its
\* continuation buffer
MaxBufferLines == 3
\* number of readline interfaces created (listen() and question() calls that
\* run initReadline())
MaxInterfaces == 2
\* number of question() calls
MaxQuestions == 2
\* number of 'line' handlers in progress at once
MaxHandlers == 2
\* number of instances made of the main class of a program written with
\* decorators
MaxInstances == 2

\* ---------------------------------------------------------------- JS values
Undefined == [type |-> "undefined"]
Null == [type |-> "null"]
Str(s) == [type |-> "string", val |-> s]
Bool(b) == [type |-> "boolean", val |-> b]
Obj(o) == [type |-> "object", val |-> o]
Err(msg) == [type |-> "Error", message |-> msg]
Arr(items) == [type |-> "Array", items |-> items]

\* ------------------------------------------------------------ String methods
IsSpace(c) == c = " "

\* String.prototype.slice(n), n >= 0
slice(s, n) == SubSeq(s, n + 1, Len(s))

\* String.prototype.startsWith(p)
startsWith(s, p) == Len(p) <= Len(s) /\ SubSeq(s, 1, Len(p)) = p

\* String.prototype.endsWith(p)
endsWith(s, p) == Len(p) <= Len(s) /\ SubSeq(s, Len(s) - Len(p) + 1, Len(s)) = p

\* length of the longest whitespace-only prefix of s
LeadingSpaces(s) == Cardinality({i \in 1..Len(s) : \A j \in 1..i : IsSpace(s[j])})

\* length of the longest whitespace-only suffix of s
TrailingSpaces(s) == Cardinality({i \in 1..Len(s) : \A j \in i..Len(s) : IsSpace(s[j])})

\* String.prototype.trimLeft()
trimLeft(s) == slice(s, LeadingSpaces(s))

\* String.prototype.trim()
trim(s) == LET t == trimLeft(s) IN SubSeq(t, 1, Len(t) - TrailingSpaces(t))

\* ------------------------------------------------------------------ RegExp
\* A pattern /pre/ , /^pre/ , /pre(.+)/ or /^pre(.+)/ without flags: the
\* literal text pre, optionally anchored at the start, optionally followed by
\* one capture group (.+) (greedy: it takes the rest of the line).
RegExp(anch, pre, grp) == [type |-> "RegExp", anch |-> anch, pre |-> pre, grp |-> grp]

\* the 0-based positions at which the pattern matches in s
MatchPositions(re, s) ==
  {i \in 0..Len(s) :
     /\ re.anch => i = 0
     /\ startsWith(slice(s, i), re.pre)
     /\ re.grp => i + Len(re.pre) < Len(s)}

\* String.prototype.match(re) for a pattern without the g flag: null, or the
\* match array of the leftmost match: groups[1] is JS matches[0] (the matched
\* text), groups[2] is JS matches[1] (the first capture group, when there is one)
strMatch(s, re) ==
  LET pos == MatchPositions(re, s) IN
  IF pos = {} THEN Null
  ELSE LET i == CHOOSE p \in pos : \A q \in pos : p <= q
           tail == slice(s, i + Len(re.pre))
       IN [type |-> "RegExpMatchArray", index |-> i,
           groups |-> IF re.grp THEN <<Str(re.pre \o tail), Str(tail)>>
                      ELSE <<Str(re.pre)>>]

\* JS matches[k] of a match array (undefined past the last group)
Group(m, k) == IF k + 1 <= Len(m.groups) THEN m.groups[k + 1] ELSE Undefined

\* String.prototype.replace(re, '') for a pattern without the g flag: the
\* leftmost match is cut out, the text before and after it is kept
strReplace(s, re) ==
  LET m == strMatch(s, re) IN
  IF m = Null THEN s
  ELSE SubSeq(s, 1, m.index) \o slice(s, m.index + Len(m.groups[1].val))

\* ------------------------------------------------------------ texts in use
get == <<"g", "e", "t">>
getter == <<"g", "e", "t", "t", "e", "r">>
pies == <<"p", "i", "e", "s">>
hello == <<"h", "e", "l", "l", "o">>
coffee == <<"c", "o", "f", "f", "e", "e", "-">>
mocha == <<"m", "o", "c", "h", "a">>
space == <<" ">>
\* the continuation marker '\\'
marker == <<"\\">>

\* ---------------------------------------------------------- CliExecutor
\* an executor that is not a function: a raw string or object
Static(v) == [kind |-> "static", val |-> v]
\* an executor (validator, suggestor) that is a function of the user's program
Fn(name) == [kind |-> "function", name |-> name]

Return(v) == [throws |-> FALSE, val |-> v]
Throw(v) == [throws |-> TRUE, val |-> v]

\* The possible outcomes of calling (and awaiting) an executor function with
\* args = <<rest, stack, regex_matches, validator_state>>
CliExecutorFunction(name, args) ==
  CASE name = "onNoMatch" ->
         {Return(Str(<<"Command ">> \o args[1].val \o <<" not found.">>))}
    [] name = "getPies" ->
         {Return(Str(<<"cake">>))}
    [] name = "wanted" ->
         IF args[3].type = "null"
         THEN {Throw(Err(<<"TypeError: Cannot read property '1' of null">>))}
         ELSE IF args[3].type = "RegExpMatchArray" THEN {Return(Group(args[3], 1))}
         ELSE {Return(Undefined)}
    [] name = "addPie" ->
         {Return(Obj([name |-> args[1].val])), Throw(Err(<<"Pie already exists.">>))}
    [] name = "database" ->
         IF args[4] = Bool(FALSE) THEN {Return(Str(<<"Database is not ready.">>))}
         ELSE IF trim(args[1].val) # <<>> THEN {Return(Str(<<"database: Command not found.">>))}
         ELSE {Return(Str(<<"Please enter a thing to do with the database.">>))}
    [] name = "throwString" ->
         {Throw(Str(<<"plain string">>))}
    [] name = "findPie" ->
         {Return(Null), Return(Undefined), Return(Err(<<"No such pie.">>))}
    [] name = "SecondTest" ->
         {Return(Str(<<"You just entered ">> \o args[1].val \o <<" after this command.">>))}
    [] name = "local" ->
         IF args[4] \in {Undefined, Bool(FALSE)}
         THEN {Return(Str(<<"Impossible de valider la commande local.">>))}
         ELSE {Return(Str(<<"Rest: ">> \o args[1].val \o <<" Validated: true">>))}

\* The possible outcomes of calling (and awaiting) a validator function with
\* args = <<rest, regex_matches>>: the answer of the outside world
CliValidator(name, args) ==
  CASE name = "testAvailability" ->
         {Return(Bool(TRUE)), Return(Bool(FALSE)), Throw(Err(<<"Database is gone.">>))}
    [] name = "localValidate" ->
         {Return(Bool(TRUE)), Return(Bool(FALSE))}

\* ------------------------------------------------------------ CliListener
\* the arguments of the command() calls of the user's program
NoOptions == [onValidateBefore |-> Undefined, onSuggest |-> Undefined]
Declaration(names, executor, options) ==
  [command_name |-> names, executor |-> executor, options |-> options]

Declarations ==
  { Declaration(<<Str(get)>>, Static(Str(<<"ok">>)), NoOptions),
    Declaration(<<Str(get)>>, Fn("database"),
                [onValidateBefore |-> Fn("testAvailability"), onSuggest |-> Undefined]),
    Declaration(<<Str(pies)>>, Fn("getPies"), NoOptions),
    Declaration(<<Str(pies), Str(get)>>, Fn("addPie"), NoOptions),
    Declaration(<<RegExp(FALSE, coffee, TRUE)>>, Fn("wanted"),
                [onValidateBefore |-> Fn("testAvailability"), onSuggest |-> Undefined]),
    Declaration(<<RegExp(FALSE, coffee, TRUE)>>, Fn("throwString"), NoOptions),
    Declaration(<<Str(pies)>>, Fn("findPie"), NoOptions) }

\* a CliListener passed as the executor of command()
Listener(id) == [kind |-> "CliListener", id |-> id]

\* new CliListener(executor, options)
CliListener(executor, options) ==
  [executor |-> executor,
   validator |-> options.onValidateBefore,
   suggestor |-> options.onSuggest,
   listeners |-> <<>>]

\* Map.prototype.keys(): the keys in insertion order
keys(listeners) == [i \in 1..Len(listeners) |-> listeners[i].key]

\* Map.prototype.get(key), for a key of the map
MapGet(listeners, key) ==
  listeners[CHOOSE i \in 1..Len(listeners) : listeners[i].key = key].node

\* an entry added at the end whether or not the key is present
MapSetAppend(listeners, key, node) ==
  Append(listeners, [key |-> key, node |-> node])

\* a key already present moved behind all the others
MapSetLast(listeners, key, node) ==
  Append(SelectSeq(listeners, LAMBDA l : l.key # key), [key |-> key, node |-> node])

\* Map.prototype.set(key, node): a key already present keeps its position
MapSet(listeners, key, node) ==
  IF \E i \in 1..Len(listeners) : listeners[i].key = key
  THEN [i \in 1..Len(listeners) |->
          IF listeners[i].key = key THEN [key |-> key, node |-> node] ELSE listeners[i]]
  ELSE Append(listeners, [key |-> key, node |-> node])

RECURSIVE MapSetAll(_, _, _)
\* for (const e of command_name) this.listeners.set(e, new_one)
MapSetAll(listeners, names, node) ==
  IF names = <<>> THEN listeners
  ELSE MapSetAll(MapSet(listeners, Head(names), node), Tail(names), node)

\* --------------------------------------------------------------- decorators
test == <<"t", "e", "s", "t">>
other == <<"o", "t", "h", "e", "r">>
local == <<"l", "o", "c", "a", "l">>

\* the classes of the program written with decorators, and their fields
Classes == {"Test", "SecondTest", "Hello", "Main"}

Fields(class) ==
  CASE class = "Test" -> [executor |-> Static(Str(<<"This is a test">>))]
    [] class = "SecondTest" -> [executor |-> Fn("SecondTest")]
    [] class = "Hello" -> [executor |-> Static(Str(<<"Hello :D">>)),
                           local |-> Fn("local"),
                           localValidate |-> Fn("localValidate")]
    [] class = "Main" -> [onNoMatch |-> Static(Str(<<"No command matched your search.">>))]

\* @Command(name, executor) on the property propertyKey
AtCommand(propertyKey, name, executor) ==
  [propertyKey |-> propertyKey, name |-> name, kind |-> "executor", executor |-> executor]

\* @LocalCommand(name, executor, options) on the property propertyKey; the
\* executor and the options name properties of the class
AtLocalCommand(propertyKey, name, executor, options) ==
  [propertyKey |-> propertyKey, name |-> name, kind |-> "local", executor |-> executor,
   options |-> options]

\* the metadata that the property decorators leave on each class, in the
\* order of the declarations
Decorated ==
  [class \in Classes |->
     CASE class = "Hello" ->
            << AtCommand("test_cmd", Str(test), "Test"),
               AtCommand("second_test_cmd", Str(other), "SecondTest"),
               AtLocalCommand("local_cmd", Str(local), "local",
                              [onValidateBefore |-> Str(<<"localValidate">>),
                               onSuggest |-> Undefined]) >>
       [] class = "Main" -> << AtCommand("hello_cmd", Str(hello), "Hello") >>
       [] OTHER -> <<>>]

\* -------------------------------------------------------------------- state
VARIABLES
  nodes,         \* the CliListener objects; nodes[1] is the CliHelper
  ncommands,     \* number of command() calls made
  rl_interface,  \* number of readline interfaces created by initReadline();
                 \* this.rl_interface is the last one, all of them read stdin
  on_question,   \* CliHelper.on_question
  buffer,        \* buffer[k]: the continuation buffer of interface k
  promises,      \* the question() calls: the interface asked, whether the
                 \* interface took the callback, the answer once resolved
  nlines,        \* number of lines submitted
  typed,         \* typed[k]: the lines ending in the continuation marker that
                 \* the handler of interface k took since its last other line
  tasks,         \* the invocations of the 'line' handler that are in progress,
                 \* and those that ended since the last submitted line
  completion,    \* the last call of a completer and what the line reader got
  closed,        \* closed[k]: interface k is closed
  goodbyes,      \* number of calls of this.onclose
  exited,        \* process.exit(0) was called
  metadata,      \* the Reflect metadata of the decorated classes: the
                 \* commands declared by the property decorators of each
  objects        \* the instances of the decorated classes, each with the
                 \* CliListener it keeps under LISTENER_KEY

vars == <<nodes, ncommands, rl_interface, on_question, buffer, promises, nlines,
          typed, tasks, completion, closed, goodbyes, exited, metadata, objects>>

\* new CliHelper({ onNoMatch: rest => `Command ${rest} not found.` })
Init ==
  /\ nodes = <<CliListener(Fn("onNoMatch"), NoOptions)>>
  /\ ncommands = 0
  /\ rl_interface = 0
  /\ on_question = FALSE
  /\ buffer = <<>>
  /\ promises = <<>>
  /\ nlines = 0
  /\ typed = <<>>
  /\ tasks = <<>>
  /\ completion = Undefined
  /\ closed = <<>>
  /\ goodbyes = 0
  /\ exited = FALSE
  /\ metadata = Decorated
  /\ objects = <<>>

\* the options of the call assigned to an existing listener even when
\* they are omitted
commandAssignsOptions(this, d) ==
  LET isListener == d.executor.kind = "CliListener"
      new_one == IF isListener THEN d.executor.id ELSE Len(nodes) + 1
      created == IF isListener THEN nodes
                 ELSE Append(nodes, CliListener(d.executor, d.options))
      optioned == IF isListener
                  THEN [created EXCEPT
                          ![new_one].validator = d.options.onValidateBefore,
                          ![new_one].suggestor = d.options.onSuggest]
                  ELSE created
  IN [optioned EXCEPT ![this].listeners = MapSetAll(@, d.command_name, new_one)]

\* the call leaves the listeners as they are
commandOnNothing(listeners, this, d) == listeners

\* this.command(command_name, executor, options) on listener `this` of the
\* CliListener objects `listeners`
\* (executor is a CliExecutor, or [kind |-> "CliListener", id |-> an existing one])
commandOn(listeners, this, d) ==
  LET isListener == d.executor.kind = "CliListener"
      new_one == IF isListener THEN d.executor.id ELSE Len(listeners) + 1
      created == IF isListener THEN listeners
                 ELSE Append(listeners, CliListener(d.executor, d.options))
      optioned == IF isListener
                  THEN [created EXCEPT
                          ![new_one].validator =
                             IF d.options.onValidateBefore # Undefined
                             THEN d.options.onValidateBefore ELSE @,
                          ![new_one].suggestor =
                             IF d.options.onSuggest # Undefined
                             THEN d.options.onSuggest ELSE @]
                  ELSE created
  IN [optioned EXCEPT ![this].listeners = MapSetAll(@, d.command_name, new_one)]

\* the call made by the user's program, on the objects of the state
command(this, d) == commandOn(nodes, this, d)

\* obj[name]: the field of an instance.  The function fields of the classes
\* are arrow functions, made anew for each instance: one is known by its
\* name and the instance it belongs to
Field(objs, obj, name) ==
  LET fields == Fields(objs[obj].class) IN
  IF name \notin DOMAIN fields THEN Undefined
  ELSE IF fields[name].kind = "function" THEN fields[name] @@ [self |-> obj]
  ELSE fields[name]

\* f?.bind(obj): an arrow function keeps the instance it was made in
Bind(f, obj) == f

\* typeof v === 'string' for an option of @LocalCommand
IsPropertyName(v) == "type" \in DOMAIN v /\ v.type = "string"

\* if (typeof options.onX === 'string') options.onX = obj[options.onX]?.bind(obj)
\* (lines 71-76), for the option as the metadata holds it: the result is
\* written back into the metadata, which all instances of the class share
Resolved(stored, objs, obj) ==
  IF IsPropertyName(stored) THEN Bind(Field(objs, obj, stored.val[1]), obj)
  ELSE stored

RECURSIVE constructListenersFromObject(_, _, _)
RECURSIVE CliCommand(_, _)

\* new (a class decorated with @CliCommand)() (lines 121-139), on
\* st = [nodes, metadata, objects]: the instance is the last of st.objects
CliCommand(st, class) ==
  LET obj == Len(st.objects) + 1
      objs == Append(st.objects, [class |-> class, listener |-> Len(st.nodes) + 1])
      made == [st EXCEPT
                 !.objects = objs,
                 !.nodes = Append(@, CliListener(Field(objs, obj, "executor"),
                              [onSuggest |-> Bind(Field(objs, obj, "onSuggest"), obj),
                               onValidateBefore |->
                                 Bind(Field(objs, obj, "onValidateBefore"), obj)]))]
  IN constructListenersFromObject(made, obj, 1)

\* constructListenersFromObject(obj) from the k-th key of the metadata on
\* (lines 53-84)
constructListenersFromObject(st, obj, k) ==
  LET class == st.objects[obj].class
      this == st.objects[obj].listener
  IN IF k > Len(st.metadata[class]) THEN st
     ELSE
       LET data == st.metadata[class][k] IN
       IF data.kind = "executor"
       THEN LET exec == Len(st.objects) + 1
                made == CliCommand(st, data.executor)
                d == Declaration(<<data.name>>, Listener(made.objects[exec].listener),
                                 NoOptions)
            IN constructListenersFromObject(
                 [made EXCEPT !.nodes = commandOn(@, this, d)], obj, k + 1)
       ELSE LET exec_fn == Field(st.objects, obj, data.executor)
                options ==
                  [onSuggest |-> Resolved(data.options.onSuggest, st.objects, obj),
                   onValidateBefore |->
                     Resolved(data.options.onValidateBefore, st.objects, obj)]
                d == Declaration(<<data.name>>, exec_fn, options)
            IN constructListenersFromObject(
                 [st EXCEPT !.metadata[class][k].options = options,
                            !.nodes = commandOn(@, this, d)], obj, k + 1)

\* new (a class decorated with @CliMain)() (lines 86-118): a CliHelper with
\* the onNoMatch and onSuggest of the instance, then its commands
CliMain(st, class) ==
  LET obj == Len(st.objects) + 1
      objs == Append(st.objects, [class |-> class, listener |-> Len(st.nodes) + 1])
      made == [st EXCEPT
                 !.objects = objs,
                 !.nodes = Append(@, CliListener(Bind(Field(objs, obj, "onNoMatch"), obj),
                              [onSuggest |-> Bind(Field(objs, obj, "onSuggest"), obj),
                               onValidateBefore |-> Undefined]))]
  IN constructListenersFromObject(made, obj, 1)

\* const helper = new Main(): the program makes an instance of its main
\* class before it listens
New ==
  /\ ~exited
  /\ rl_interface = 0
  /\ Cardinality({o \in 1..Len(objects) : objects[o].class = "Main"}) < MaxInstances
  /\ LET st == CliMain([nodes |-> nodes, metadata |-> metadata, objects |-> objects],
                       "Main")
     IN /\ nodes' = st.nodes
        /\ metadata' = st.metadata
        /\ objects' = st.objects
  /\ UNCHANGED <<ncommands, rl_interface, on_question, buffer, promises, nlines, typed,
                 tasks, completion, closed, goodbyes, exited>>

\* the user's program registers a command before listening
Command(this, d) ==
  /\ ~exited
  /\ rl_interface = 0
  /\ ncommands < MaxCommands
  /\ nodes' = command(this, d)
  /\ ncommands' = ncommands + 1
  /\ UNCHANGED <<rl_interface, on_question, buffer, promises, nlines, typed, tasks, completion,
                 closed, goodbyes, exited, metadata, objects>>

\* CliHelper.listen(): the flag is reset and initReadline() creates a new
\* interface with its own buffer and 'line' handler
Listen ==
  /\ ~exited
  /\ nodes # <<>>
  /\ rl_interface < MaxInterfaces
  /\ on_question' = FALSE
  /\ rl_interface' = rl_interface + 1
  /\ buffer' = Append(buffer, <<>>)
  /\ typed' = Append(typed, <<>>)
  /\ closed' = Append(closed, FALSE)
  /\ UNCHANGED <<nodes, ncommands, promises, nlines, tasks, completion, goodbyes, exited, metadata, objects>>

\* readline's Interface.question(query, cb) keeps the callback unless one is
\* already waiting on that interface
Waits(p) == p.registered /\ p.answer = Undefined
QuestionCallback(k) == {q \in 1..Len(promises) : promises[q].rl = k /\ Waits(promises[q])}

\* CliHelper.question(question)
Question ==
  /\ ~exited
  /\ nodes # <<>>
  /\ Len(promises) < MaxQuestions
  /\ LET rl == IF rl_interface = 0 THEN 1 ELSE rl_interface IN
       /\ rl_interface' = rl
       /\ buffer' = IF rl_interface = 0 THEN Append(buffer, <<>>) ELSE buffer
       /\ typed' = IF rl_interface = 0 THEN Append(typed, <<>>) ELSE typed
       /\ closed' = IF rl_interface = 0 THEN Append(closed, FALSE) ELSE closed
       /\ on_question' = TRUE
       /\ promises' = Append(promises, [rl |-> rl,
                                        registered |-> QuestionCallback(rl) = {},
                                        answer |-> Undefined])
  /\ UNCHANGED <<nodes, ncommands, nlines, tasks, completion, goodbyes, exited, metadata, objects>>

\* ------------------------------------------------------- CliListener.match
\* a literal accepted only when whitespace or nothing follows it
MatchesWord(matcher, rest) ==
  IF matcher.type = "string"
  THEN /\ startsWith(rest, matcher.val)
       /\ Len(rest) > Len(matcher.val) => IsSpace(rest[Len(matcher.val) + 1])
  ELSE strMatch(rest, matcher) # Null

\* does the matcher accept the text (lines 92 and 97-99)?
Matches(matcher, rest) ==
  IF matcher.type = "string" THEN startsWith(rest, matcher.val)
  ELSE strMatch(rest, matcher) # Null

\* the loop run to its end: the last matcher that accepts the text wins
LastMatch(listeners, rest) ==
  LET hits == {i \in 1..Len(listeners) : Matches(listeners[i].key, rest)} IN
  IF hits = {} THEN 0 ELSE CHOOSE i \in hits : \A j \in hits : i >= j

\* the loop over this.listeners.keys(): the position of the matcher whose
\* listener match() returns, 0 when the loop ends without a return
FirstMatch(listeners, rest) ==
  LET hits == {i \in 1..Len(listeners) : Matches(listeners[i].key, rest)} IN
  IF hits = {} THEN 0 ELSE CHOOSE i \in hits : \A j \in hits : i <= j

\* the text after a literal passed on with its leading whitespace
DescendNoTrim(matcher, rest, stack) ==
  IF matcher.type = "string"
  THEN [rest |-> slice(rest, Len(matcher.val)),
        stack |-> Append(stack, matcher),
        matches |-> Null]
  ELSE LET matches == strMatch(rest, matcher) IN
       [rest |-> trimLeft(strReplace(rest, matcher)),
        stack |-> Append(stack, Arr(<<matcher, matches>>)),
        matches |-> matches]

\* a pattern's match cut off the front of the text, as for a literal
DescendSlice(matcher, rest, stack) ==
  IF matcher.type = "string"
  THEN [rest |-> trimLeft(slice(rest, Len(matcher.val))),
        stack |-> Append(stack, matcher),
        matches |-> Null]
  ELSE LET matches == strMatch(rest, matcher) IN
       [rest |-> trimLeft(slice(rest, Len(matches.groups[1].val))),
        stack |-> Append(stack, Arr(<<matcher, matches>>)),
        matches |-> matches]

\* null passed as the match array for a pattern too
DescendNull(matcher, rest, stack) ==
  IF matcher.type = "string"
  THEN [rest |-> trimLeft(slice(rest, Len(matcher.val))),
        stack |-> Append(stack, matcher),
        matches |-> Null]
  ELSE LET matches == strMatch(rest, matcher) IN
       [rest |-> trimLeft(strReplace(rest, matcher)),
        stack |-> Append(stack, Arr(<<matcher, matches>>)),
        matches |-> Null]

\* the arguments (rest, stack, matches) of the recursive match() call for a
\* matcher that accepts rest (lines 93 and 100)
Descend(matcher, rest, stack) ==
  IF matcher.type = "string"
  THEN [rest |-> trimLeft(slice(rest, Len(matcher.val))),
        stack |-> Append(stack, matcher),
        matches |-> Null]
  ELSE LET matches == strMatch(rest, matcher) IN
       [rest |-> trimLeft(strReplace(rest, matcher)),
        stack |-> Append(stack, Arr(<<matcher, matches>>)),
        matches |-> matches]

\* the sub-listeners tried whatever the validator answered
TriesListenersAlways(validator_state) == TRUE

\* validator_state !== false: are the sub-listeners tried?
TriesListeners(validator_state) == validator_state # Bool(FALSE)

\* the match array passed second, the stack third
ExecutorArgsSwapped(rest, stack, matches, validator_state) ==
  <<Str(rest), matches, Arr(stack), validator_state>>

\* the arguments the executor function is called with (line 107)
ExecutorArgs(rest, stack, matches, validator_state) ==
  <<Str(rest), Arr(stack), matches, validator_state>>

\* validator_state kept from the calling match() when there is no validator
ValidatorStateKept(caller, validator, v) ==
  IF validator = Undefined THEN caller ELSE v.val

\* let validator_state = undefined; if (this.validator) validator_state =
\* await this.validator(rest, matches) (lines 83-87): local to each call
ValidatorState(caller, validator, v) ==
  IF validator = Undefined THEN Undefined ELSE v.val

\* the arguments the validator function is called with (line 86)
ValidatorArgs(rest, matches) == <<Str(rest), matches>>

\* what the awaited function threw taken for the value it returned
RejectsNever(outcome) == FALSE

\* match() has no try block (lines 82-109): what an awaited validator or
\* executor throws, or rejects with, rejects the promise of match()
Rejects(outcome) == outcome.throws

\* ----------------------------------------------------- the 'line' handler
\* new Error(e): the message is the value converted to a string
NewError(e) ==
  Err(CASE e.type = "string" -> e.val
        [] e.type = "undefined" -> <<>>
        [] OTHER -> <<"[object Object]">>)

\* what was thrown kept as it is
CaughtRaw(e) == e

\* catch (e): an Error is kept, anything else is wrapped (lines 180-186)
Caught(e) == IF e.type = "Error" THEN e ELSE NewError(e)

\* the input lines the user types
Lines ==
  { get, getter, get \o space \o pies, coffee \o mocha,
    get \o space \o coffee \o mocha, space \o hello \o space, <<>>,
    get \o space \o marker, pies }

\* a handler suspended where the user's function may await something: only
\* then can the line reader deliver another line
Suspended(t) ==
  \/ t.pc = "exec"
  \/ t.pc = "match" /\ nodes[t.node].validator # Undefined

InFlight(t) == t.pc \in {"match", "exec", "render"}

\* the record of one match() call in the trace of a handler
Called(node, rest, stack, matches) ==
  [ev |-> "match", node |-> node, rest |-> rest, stack |-> stack, matches |-> matches]

\* a handler that returns before this.match (lines 160-175)
Returned(pc, prompts) ==
  [line |-> <<>>, pc |-> pc, node |-> 1, rest |-> <<>>, stack |-> <<>>,
   matches |-> Null, validator_state |-> Undefined, pending |-> Undefined,
   returned |-> Undefined, trace |-> <<>>, printed |-> <<>>, errors |-> <<>>,
   prompts |-> prompts]

\* a handler that calls this.match(line.trim(), [], null) (line 179)
NewTask(line) ==
  [line |-> line, pc |-> "match", node |-> 1, rest |-> trim(line), stack |-> <<>>,
   matches |-> Null, validator_state |-> Undefined, pending |-> Undefined,
   returned |-> Undefined, trace |-> <<Called(1, trim(line), <<>>, Null)>>,
   printed |-> <<>>, errors |-> <<>>, prompts |-> 0]

\* what a handler was given: its interface, the submitted line, the
\* continuation lines its interface took before it, whether a question was
\* waiting for its answer when the line was submitted, and this.on_question
\* as the handler found it
Given(k, input, prior, asked, flag) ==
  [rl |-> k, input |-> input, prior |-> prior, asked |-> asked, flag |-> flag]

\* the flag is not looked at
DiscardsNever(flag) == FALSE

\* if (this.on_question) return (lines 160-162)
Discards(flag) == flag

\* rl.on('line', ...) of interface k up to the call of this.match (lines
\* 159-179), on st = [on_question, buffer, typed, promises, tasks]
Handler(st, k, input, asked) ==
  LET line == st.buffer[k] \o input
      given == Given(k, input, st.typed[k], asked, st.on_question)
  IN IF Discards(st.on_question)
     THEN [st EXCEPT !.tasks = Append(@, given @@ Returned("ignored", 0))]
     ELSE IF line = <<>>
     THEN [st EXCEPT !.tasks = Append(@, given @@ Returned("empty", 1)),
                     !.typed[k] = <<>>]
     ELSE IF endsWith(line, marker)
     THEN [st EXCEPT !.buffer[k] = SubSeq(line, 1, Len(line) - 1) \o space,
                     !.tasks = Append(@, given @@ Returned("buffered", 0)),
                     !.typed[k] = Append(@, input)]
     ELSE [st EXCEPT !.tasks = Append(@, given @@ NewTask(line)),
                     !.typed[k] = <<>>]

\* the flag left as it is when the answer arrives
AnswerKeepsFlag(st, q, answer) ==
  [st EXCEPT !.promises[q].answer = Str(answer)]

\* the callback that question() gives to rl.question (lines 225-228)
Answer(st, q, answer) ==
  [st EXCEPT !.on_question = FALSE, !.promises[q].answer = Str(answer)]

\* readline's Interface: a submitted line goes to the question callback that
\* waits on the interface, or else to the listeners of 'line'
OnLine(st, k, input, asked) ==
  LET waiting == {q \in 1..Len(st.promises) :
                    st.promises[q].rl = k /\ Waits(st.promises[q])}
  IN IF waiting # {} THEN Answer(st, CHOOSE q \in waiting : TRUE, input)
     ELSE Handler(st, k, input, asked)

RECURSIVE Deliver(_, _, _, _)
\* every open interface reads the same stdin: they get the line in creation
\* order
Deliver(st, k, input, asked) ==
  IF k > rl_interface THEN st
  ELSE IF closed[k] THEN Deliver(st, k + 1, input, asked)
  ELSE Deliver(OnLine(st, k, input, asked), k + 1, input, asked)

\* the user submits a line, one of at most max.  It arrives while the
\* handlers in progress are suspended, and only if that leaves at most
\* MaxHandlers of them in the records (those that ended before are dropped)
LineWithin(input, max) ==
  /\ ~exited
  /\ rl_interface > 0
  /\ nlines < max
  /\ nlines' = nlines + 1
  /\ \A i \in 1..Len(tasks) : InFlight(tasks[i]) => Suspended(tasks[i])
  /\ Len(SelectSeq(tasks, InFlight))
       + Cardinality({k \in 1..rl_interface : ~closed[k] /\ QuestionCallback(k) = {}}) <= MaxHandlers
  /\ LET asked == \E q \in 1..Len(promises) : Waits(promises[q])
         st == Deliver([on_question |-> on_question, buffer |-> buffer,
                        typed |-> typed, promises |-> promises,
                        tasks |-> SelectSeq(tasks, InFlight)], 1, input, asked)
     IN /\ on_question' = st.on_question
        /\ buffer' = st.buffer
        /\ typed' = st.typed
        /\ promises' = st.promises
        /\ tasks' = st.tasks
  /\ UNCHANGED <<nodes, ncommands, rl_interface, completion, closed, goodbyes, exited, metadata, objects>>

\* the user submits a line
LineEvent(input) == LineWithin(input, MaxLines)

\* one call of match() of the listener t.node: the validator, the loop over
\* the sub-listeners, and either the recursive call or the executor
Match(i) ==
  /\ ~exited
  /\ i \in 1..Len(tasks)
  /\ tasks[i].pc = "match"
  /\ LET t == tasks[i]
         this == nodes[t.node]
         entered == t.trace
     IN \E v \in (IF this.validator = Undefined THEN {Return(Undefined)}
                  ELSE CliValidator(this.validator.name, ValidatorArgs(t.rest, t.matches))) :
          LET validated ==
                IF this.validator = Undefined THEN entered
                ELSE Append(entered, [ev |-> "validator", node |-> t.node,
                                      args |-> ValidatorArgs(t.rest, t.matches),
                                      outcome |-> v])
              validator_state == ValidatorState(t.validator_state, this.validator, v)
              k == IF TriesListeners(validator_state)
                   THEN FirstMatch(this.listeners, t.rest) ELSE 0
          IN IF Rejects(v)
             THEN tasks' = [tasks EXCEPT ![i].trace = validated,
                                         ![i].returned = Caught(v.val),
                                         ![i].pc = "render"]
             ELSE IF k # 0
             THEN LET matcher == keys(this.listeners)[k]
                      call == Descend(matcher, t.rest, t.stack)
                  IN tasks' = [tasks EXCEPT ![i].trace = Append(validated,
                                                Called(MapGet(this.listeners, matcher),
                                                       call.rest, call.stack, call.matches)),
                                            ![i].validator_state = validator_state,
                                            ![i].node = MapGet(this.listeners, matcher),
                                            ![i].rest = call.rest,
                                            ![i].stack = call.stack,
                                            ![i].matches = call.matches]
             ELSE IF this.executor.kind = "function"
             THEN \E out \in CliExecutorFunction(this.executor.name,
                       ExecutorArgs(t.rest, t.stack, t.matches, validator_state)) :
                    tasks' = [tasks EXCEPT
                       ![i].trace = Append(validated,
                           [ev |-> "executor", node |-> t.node,
                            args |-> ExecutorArgs(t.rest, t.stack, t.matches, validator_state)]),
                       ![i].validator_state = validator_state,
                       ![i].pending = out,
                       ![i].pc = "exec"]
             ELSE tasks' = [tasks EXCEPT ![i].trace = Append(validated,
                                             [ev |-> "return", node |-> t.node]),
                                         ![i].validator_state = validator_state,
                                         ![i].returned = this.executor.val,
                                         ![i].pc = "render"]
  /\ UNCHANGED <<nodes, ncommands, rl_interface, on_question, buffer, promises, nlines, typed, completion,
                 closed, goodbyes, exited, metadata, objects>>

\* the awaited executor settles: its value is returned through every match()
\* on the stack, what it threw is caught by the handler (lines 178-187)
Settle(i) ==
  /\ ~exited
  /\ i \in 1..Len(tasks)
  /\ tasks[i].pc = "exec"
  /\ tasks' = [tasks EXCEPT
        ![i].returned = IF Rejects(tasks[i].pending) THEN Caught(tasks[i].pending.val)
                        ELSE tasks[i].pending.val,
        ![i].pc = "render"]
  /\ UNCHANGED <<nodes, ncommands, rl_interface, on_question, buffer, promises, nlines, typed, completion,
                 closed, goodbyes, exited, metadata, objects>>

\* the outcomes of the user's error callback this.onerror(error)
onerror(error) == {Return(Undefined), Throw(Err(<<"onCliError failed">>))}

\* an Error taken for any other object (no instanceof test)
ShapeByTypeof(returned) ==
  IF returned.type = "string" THEN "string"
  ELSE IF returned.type \in {"object", "null", "Array", "RegExpMatchArray", "Error"}
  THEN "object"
  ELSE "none"

\* the branch of lines 189-199 that a result takes: typeof 'string',
\* instanceof Error, typeof 'object' (null and arrays too), or none
Shape(returned) ==
  IF returned.type = "string" THEN "string"
  ELSE IF returned.type = "Error" THEN "Error"
  ELSE IF returned.type \in {"object", "null", "Array", "RegExpMatchArray"} THEN "object"
  ELSE "none"

\* the result is shown and the prompt re-issued (lines 189-203)
Render(i) ==
  /\ ~exited
  /\ i \in 1..Len(tasks)
  /\ tasks[i].pc = "render"
  /\ LET returned == tasks[i].returned IN
       IF Shape(returned) = "string"
       THEN /\ tasks' = [tasks EXCEPT ![i].printed = Append(@, <<"cli: ">> \o returned.val),
                                      ![i].prompts = @ + 1, ![i].pc = "done"]
            /\ buffer' = [buffer EXCEPT ![tasks[i].rl] = <<>>]
       ELSE IF Shape(returned) = "Error"
       THEN \E out \in onerror(returned) :
              IF out.throws
              THEN /\ tasks' = [tasks EXCEPT ![i].errors = Append(@, returned),
                                             ![i].pc = "rejected"]
                   /\ UNCHANGED buffer
              ELSE /\ tasks' = [tasks EXCEPT ![i].errors = Append(@, returned),
                                             ![i].prompts = @ + 1, ![i].pc = "done"]
                   /\ buffer' = [buffer EXCEPT ![tasks[i].rl] = <<>>]
       ELSE IF Shape(returned) = "object"
       THEN /\ tasks' = [tasks EXCEPT ![i].printed = Append(@, <<"cli:", returned>>),
                                      ![i].prompts = @ + 1, ![i].pc = "done"]
            /\ buffer' = [buffer EXCEPT ![tasks[i].rl] = <<>>]
       ELSE /\ tasks' = [tasks EXCEPT ![i].prompts = @ + 1, ![i].pc = "done"]
            /\ buffer' = [buffer EXCEPT ![tasks[i].rl] = <<>>]
  /\ UNCHANGED <<nodes, ncommands, rl_interface, on_question, promises, nlines, typed, completion,
                 closed, goodbyes, exited, metadata, objects>>

\* ------------------------------------------------------------------- close
\* the handler returns without ending the process
ExitsNever == FALSE

\* process.exit(0) (line 209) ends the process: nothing runs after it
Exits == TRUE

\* .on('close', ...) of an interface (lines 204-210), on c = [goodbyes,
\* exited]: this.onclose() is called (it logs 'Goodbye.' and returns), then
\* process.exit(0)
OnClose(c) ==
  IF c.exited THEN c
  ELSE [goodbyes |-> c.goodbyes + 1, exited |-> Exits]

RECURSIVE CloseFrom(_, _)
\* the open interfaces from the k-th on emit 'close', in creation order
CloseFrom(c, k) ==
  IF k > rl_interface THEN c
  ELSE CloseFrom(IF closed[k] THEN c ELSE OnClose(c), k + 1)

\* CliHelper.close(): this.rl_interface.close() closes the newest interface,
\* which emits 'close' (closing a closed interface does nothing)
Close ==
  /\ ~exited
  /\ rl_interface > 0
  /\ ~closed[rl_interface]
  /\ closed' = [closed EXCEPT ![rl_interface] = TRUE]
  /\ LET c == OnClose([goodbyes |-> goodbyes, exited |-> exited]) IN
       /\ goodbyes' = c.goodbyes
       /\ exited' = c.exited
  /\ UNCHANGED <<nodes, ncommands, rl_interface, on_question, buffer, promises, nlines,
                 typed, tasks, completion, metadata, objects>>

\* stdin ends (or the user types CTRL+C or CTRL+D): every open interface
\* closes itself and emits 'close'
End ==
  /\ ~exited
  /\ \E k \in 1..rl_interface : ~closed[k]
  /\ closed' = [k \in 1..rl_interface |-> TRUE]
  /\ LET c == CloseFrom([goodbyes |-> goodbyes, exited |-> exited], 1) IN
       /\ goodbyes' = c.goodbyes
       /\ exited' = c.exited
  /\ UNCHANGED <<nodes, ncommands, rl_interface, on_question, buffer, promises, nlines,
                 typed, tasks, completion, metadata, objects>>

\* ------------------------------------------------- CliListener.getSuggests
\* rest.split(/\s+/)[0]: the text before the first whitespace
FirstWord(rest) ==
  LET ws == {i \in 1..Len(rest) : IsSpace(rest[i])} IN
  IF ws = {} THEN rest
  ELSE SubSeq(rest, 1, (CHOOSE i \in ws : \A j \in ws : i <= j) - 1)

\* whatever comes next is accepted
isValidAlways(rest) == TRUE

\* CliListener.isValid(rest): nothing, or whitespace, comes next
isValid(rest) == rest = <<>> \/ IsSpace(rest[1])

\* a value concatenated to a string
Stringified(v) == IF v.type = "string" THEN v.val ELSE <<"undefined">>

\* after_matcher.slice(0, after_matcher.length - size_after_tleft) || " "
Padding(after_matcher) ==
  IF LeadingSpaces(after_matcher) = 0 THEN space
  ELSE SubSeq(after_matcher, 1, LeadingSpaces(after_matcher))

\* The outcome of calling (and awaiting) a suggestor function with
\* args = <<rest, stack>>
CliSuggestor(name, args) ==
  CASE name = "suggestor" -> <<Str(pies), Str(hello)>>
    [] name = "ponies" -> <<Str(<<"p", "o", "n", "i", "e", "s">>)>>

\* the suggestor and the executor of the listener both called
UserMatchesAndExecutor(this, rest, stack, stop_on_next) ==
  [matches |-> <<>>,
   calls |-> <<[ev |-> "suggestor", node |-> this, args |-> <<Str(rest), Arr(stack)>>],
               [ev |-> "executor", node |-> this,
                args |-> ExecutorArgs(rest, stack, Null, Undefined)]>>]

\* if (!stop_on_next && this.suggestor) user_matches = await
\* this.suggestor(rest, stack) (lines 168-175): the matches and the call made
UserMatches(this, rest, stack, stop_on_next) ==
  IF ~stop_on_next /\ nodes[this].suggestor # Undefined
  THEN [matches |-> CliSuggestor(nodes[this].suggestor.name, <<Str(rest), Arr(stack)>>),
        calls |-> <<[ev |-> "suggestor", node |-> this,
                     args |-> <<Str(rest), Arr(stack)>>]>>]
  ELSE [matches |-> <<>>, calls |-> <<>>]

\* matches.push(head, ...m_all.map(e => prefix + padding + e))
Pushed(head, prefix, padding, m_all) ==
  <<head>> \o [j \in 1..Len(m_all) |-> Str(prefix \o padding \o Stringified(m_all[j]))]

\* no matcher is passed over
SkipsNever(splittedone, stop_on_next) == FALSE

\* if (!splittedone.length) { if (stop) continue; ... } (lines 128-133): the
\* matcher is passed over
Skips(splittedone, stop_on_next) == splittedone = <<>> /\ stop_on_next

RECURSIVE getSuggests(_, _, _, _)
RECURSIVE ForMatchers(_, _, _, _, _)

\* the loop over this.listeners.keys() from the k-th matcher on (lines
\* 124-166): the matches pushed and the callbacks called
ForMatchers(this, rest, stack, stop_on_next, k) ==
  LET listeners == nodes[this].listeners IN
  IF k > Len(listeners) THEN [matches |-> <<>>, calls |-> <<>>, entered |-> <<>>]
  ELSE
    LET matcher == listeners[k].key
        splittedone == FirstWord(rest)
        stop == IF splittedone = <<>> THEN TRUE ELSE stop_on_next
        reg_match == IF matcher.type = "RegExp" THEN strMatch(splittedone, matcher) ELSE Null
        taken ==
          IF matcher.type = "string" THEN matcher.val
          ELSE IF reg_match # Null THEN Group(reg_match, 0).val
          ELSE <<>>
        enters ==
          /\ ~Skips(splittedone, stop_on_next)
          /\ IF matcher.type = "string"
             THEN startsWith(matcher.val, splittedone) /\ isValid(slice(rest, Len(matcher.val)))
             ELSE reg_match # Null /\ isValid(slice(rest, Len(taken)))
        after_matcher == slice(rest, Len(taken))
        sub == getSuggests(listeners[k].node, trimLeft(after_matcher),
                           Append(stack, IF matcher.type = "string" THEN matcher
                                         ELSE Arr(<<matcher, reg_match>>)), stop)
        next == ForMatchers(this, rest, stack, stop_on_next, k + 1)
    IN IF enters
       THEN [matches |-> Pushed(IF matcher.type = "string" THEN matcher
                                ELSE Group(reg_match, 1),
                                taken, Padding(after_matcher), sub.matches) \o next.matches,
             calls |-> sub.calls \o next.calls,
             entered |-> sub.entered \o next.entered]
       ELSE next

\* the record of one getSuggests() call: its arguments and the matches it
\* returned
Entered(this, rest, stack, stop_on_next, matches) ==
  [node |-> this, rest |-> rest, stack |-> stack, stop_on_next |-> stop_on_next,
   matches |-> matches]

\* getSuggests(rest, stack, stop_on_next): [matches, rest], the callbacks
\* called on the way, and the getSuggests() calls made, itself first
getSuggests(this, rest, stack, stop_on_next) ==
  LET found == ForMatchers(this, rest, stack, stop_on_next, 1)
      user == UserMatches(this, rest, stack, stop_on_next)
  IN [matches |-> found.matches \o user.matches,
      rest |-> rest,
      calls |-> found.calls \o user.calls,
      entered |-> <<Entered(this, rest, stack, stop_on_next,
                            found.matches \o user.matches)>> \o found.entered]

\* every candidate that starts with the line
FilterStartsWith(matches, line) ==
  SelectSeq(matches, LAMBDA e : startsWith(e.val, line))

\* s[0].filter(e => e.startsWith(line) && e.length > line.length) (line 149)
Filter(matches, line) ==
  SelectSeq(matches, LAMBDA e : startsWith(e.val, line) /\ Len(e.val) > Len(line))

\* the texts the user completes with the tab key
CompleterLines ==
  { <<>>, <<"g">>, get, get \o space, get \o space \o <<"p">>, <<"g">> \o space \o pies,
    coffee \o mocha, get \o space \o pies \o space,
    space \o space \o space \o space \o <<"p">>, <<"x">> \o coffee \o mocha }

\* the completer of interface k (lines 139-153).  With a continuation in the
\* buffer it returns [[], line] and never calls the callback; otherwise the
\* callback gets the filtered matches and the line, or the TypeError of
\* e.startsWith for a match that is undefined
Completer(k, line) ==
  /\ ~exited
  /\ k \in 1..rl_interface /\ ~closed[k]
  /\ completion' =
       IF buffer[k] # <<>>
       THEN [rl |-> k, line |-> line, suggested |-> FALSE, calls |-> <<>>,
             entered |-> <<>>, via |-> "return", err |-> Null, value |-> <<Arr(<<>>), Str(line)>>]
       ELSE LET s == getSuggests(1, line, <<>>, FALSE) IN
            IF \E j \in 1..Len(s.matches) : s.matches[j].type # "string"
            THEN [rl |-> k, line |-> line, suggested |-> TRUE, matches |-> s.matches,
                  calls |-> s.calls, entered |-> s.entered, via |-> "callback",
                  err |-> Err(<<"TypeError: Cannot read property 'startsWith' of undefined">>),
                  value |-> Undefined]
            ELSE [rl |-> k, line |-> line, suggested |-> TRUE, matches |-> s.matches,
                  calls |-> s.calls, entered |-> s.entered, via |-> "callback", err |-> Null,
                  value |-> <<Arr(Filter(s.matches, line)), Str(s.rest)>>]
  /\ UNCHANGED <<nodes, ncommands, rl_interface, on_question, buffer, promises, nlines,
                 typed, tasks, closed, goodbyes, exited, metadata, objects>>

Next ==
  \/ \E this \in 1..Len(nodes), d \in Declarations : Command(this, d)
  \/ Listen
  \/ \E input \in Lines : LineEvent(input)
  \/ \E i \in 1..MaxHandlers : Match(i)
  \/ \E i \in 1..MaxHandlers : Settle(i)
  \/ \E i \in 1..MaxHandlers : Render(i)

Spec == Init /\ [][Next]_vars

\* the program that also asks questions; it registers "get" with a validator
AskDeclarations ==
  { Declaration(<<Str(get)>>, Fn("database"),
                [onValidateBefore |-> Fn("testAvailability"), onSuggest |-> Undefined]) }

AskLines == { get, get \o space \o marker, pies, <<>> }

AskNext ==
  \/ \E d \in AskDeclarations : Command(1, d)
  \/ Listen
  \/ Question
  \/ \E input \in AskLines : LineEvent(input)
  \/ \E i \in 1..MaxHandlers : Match(i)
  \/ \E i \in 1..MaxHandlers : Settle(i)
  \/ \E i \in 1..MaxHandlers : Render(i)

AskSpec == Init /\ [][AskNext]_vars

\* the program whose user completes lines with the tab key
SuggestDeclarations ==
  { Declaration(<<Str(get)>>, Static(Str(<<"ok">>)),
                [onValidateBefore |-> Undefined, onSuggest |-> Fn("suggestor")]),
    Declaration(<<Str(pies)>>, Fn("getPies"), NoOptions),
    Declaration(<<RegExp(FALSE, coffee, TRUE)>>, Fn("wanted"), NoOptions),
    Declaration(<<RegExp(TRUE, get, FALSE)>>, Static(Str(<<"ok">>)), NoOptions) }

SuggestLines == { get \o space \o marker }

SuggestNext ==
  \/ \E this \in 1..Len(nodes), d \in SuggestDeclarations : Command(this, d)
  \/ Listen
  \/ \E input \in SuggestLines : LineEvent(input)
  \/ \E k \in 1..MaxInterfaces, line \in CompleterLines : Completer(k, line)

SuggestSpec == Init /\ [][SuggestNext]_vars

\* the program that registers listeners it already has under more names
AliasDeclarations ==
  { Declaration(<<Str(get)>>, Static(Str(<<"ok">>)),
                [onValidateBefore |-> Fn("testAvailability"), onSuggest |-> Fn("suggestor")]),
    Declaration(<<Str(pies)>>, Fn("getPies"), NoOptions) }

\* the command() calls that pass the existing listener id
Aliases(id) ==
  { Declaration(<<Str(hello)>>, Listener(id), NoOptions),
    Declaration(<<Str(pies), RegExp(FALSE, coffee, TRUE)>>, Listener(id),
                [onValidateBefore |-> Fn("localValidate"), onSuggest |-> Undefined]),
    Declaration(<<Str(hello)>>, Listener(id),
                [onValidateBefore |-> Undefined, onSuggest |-> Fn("ponies")]) }

AliasLines == { get, hello, pies, coffee \o mocha }

AliasNext ==
  \/ \E this \in 1..Len(nodes) :
       \E d \in AliasDeclarations \cup UNION {Aliases(id) : id \in 1..Len(nodes)} :
         Command(this, d)
  \/ Listen
  \/ \E input \in AliasLines : LineEvent(input)
  \/ \E i \in 1..MaxHandlers : Match(i)
  \/ \E i \in 1..MaxHandlers : Settle(i)
  \/ \E i \in 1..MaxHandlers : Render(i)

AliasSpec == Init /\ [][AliasNext]_vars

\* the program that is closed while it runs; "get" has an awaited validator
CloseDeclarations ==
  { Declaration(<<Str(get)>>, Fn("database"),
                [onValidateBefore |-> Fn("testAvailability"), onSuggest |-> Undefined]),
    Declaration(<<Str(pies)>>, Fn("getPies"), NoOptions) }

CloseLines == { get, pies, get \o space \o marker, space, marker, <<>> }

CloseNext ==
  \/ \E d \in CloseDeclarations : Command(1, d)
  \/ Listen
  \/ \E input \in CloseLines : LineEvent(input)
  \/ \E i \in 1..MaxHandlers : Match(i)
  \/ \E i \in 1..MaxHandlers : Settle(i)
  \/ \E i \in 1..MaxHandlers : Render(i)
  \/ Close
  \/ End

CloseSpec == Init /\ [][CloseNext]_vars

\* the program written with decorators: no CliHelper exists before its main
\* class is instantiated
DecoInit ==
  /\ nodes = <<>>
  /\ ncommands = 0
  /\ rl_interface = 0
  /\ on_question = FALSE
  /\ buffer = <<>>
  /\ promises = <<>>
  /\ nlines = 0
  /\ typed = <<>>
  /\ tasks = <<>>
  /\ completion = Undefined
  /\ closed = <<>>
  /\ goodbyes = 0
  /\ exited = FALSE
  /\ metadata = Decorated
  /\ objects = <<>>

DecoLines ==
  { hello, hello \o space \o test, hello \o space \o other \o space \o pies,
    hello \o space \o local, pies }

DecoNext ==
  \/ New
  \/ Listen
  \/ \E input \in DecoLines : LineEvent(input)
  \/ \E i \in 1..MaxHandlers : Match(i)
  \/ \E i \in 1..MaxHandlers : Settle(i)
  \/ \E i \in 1..MaxHandlers : Render(i)

DecoSpec == DecoInit /\ [][DecoNext]_vars

\* the program that registers the empty string as a command name
EmptyDeclarations ==
  { Declaration(<<Str(<<>>)>>, Static(Str(<<"anything">>)), NoOptions),
    Declaration(<<Str(get)>>, Fn("database"),
                [onValidateBefore |-> Fn("testAvailability"), onSuggest |-> Undefined]),
    Declaration(<<Str(pies)>>, Fn("getPies"), NoOptions) }

EmptyLines == { get, pies, get \o space \o pies, space \o hello \o space }

EmptyNext ==
  \/ \E this \in 1..Len(nodes), d \in EmptyDeclarations : Command(this, d)
  \/ Listen
  \/ \E input \in EmptyLines : LineEvent(input)
  \/ \E i \in 1..MaxHandlers : Match(i)
  \/ \E i \in 1..MaxHandlers : Settle(i)
  \/ \E i \in 1..MaxHandlers : Render(i)

EmptySpec == Init /\ [][EmptyNext]_vars

\* the program watched for its continuation buffer: one command whose
\* executor is awaited and may return an Error
BufferDeclarations == { Declaration(<<Str(pies)>>, Fn("findPie"), NoOptions) }

BufferLines == { pies, pies \o space \o marker, get }

BufferNext ==
  \/ \E d \in BufferDeclarations : Command(1, d)
  \/ Listen
  \/ \E input \in BufferLines : LineWithin(input, MaxBufferLines)
  \/ \E i \in 1..MaxHandlers : Match(i)
  \/ \E i \in 1..MaxHandlers : Settle(i)
  \/ \E i \in 1..MaxHandlers : Render(i)

BufferSpec == Init /\ [][BufferNext]_vars

\* the program whose lines are both completed and submitted
StackLines == { get \o space \o pies, coffee \o mocha \o space \o get }

StackCompleterLines == { get \o space \o <<"p">>, coffee \o mocha \o space }

StackNext ==
  \/ \E this \in 1..Len(nodes), d \in SuggestDeclarations : Command(this, d)
  \/ Listen
  \/ \E input \in StackLines : LineEvent(input)
  \/ \E i \in 1..MaxHandlers : Match(i)
  \/ \E i \in 1..MaxHandlers : Settle(i)
  \/ \E i \in 1..MaxHandlers : Render(i)
  \/ \E k \in 1..MaxInterfaces, line \in StackCompleterLines : Completer(k, line)

StackSpec == Init /\ [][StackNext]_vars

\* the program that registers, listens, asks, completes and is closed
FrameDeclarations ==
  { Declaration(<<Str(get)>>, Static(Str(<<"ok">>)),
                [onValidateBefore |-> Undefined, onSuggest |-> Fn("suggestor")]),
    Declaration(<<Str(pies)>>, Fn("getPies"), NoOptions) }

FrameLines == { get \o space \o pies }

FrameCompleterLines == { get \o space }

FrameNext ==
  \/ \E this \in 1..Len(nodes), d \in FrameDeclarations : Command(this, d)
  \/ Listen
  \/ Question
  \/ \E input \in FrameLines : LineEvent(input)
  \/ \E i \in 1..MaxHandlers : Match(i)
  \/ \E i \in 1..MaxHandlers : Settle(i)
  \/ \E i \in 1..MaxHandlers : Render(i)
  \/ \E k \in 1..MaxInterfaces, line \in FrameCompleterLines : Completer(k, line)
  \/ Close
  \/ End

FrameSpec == Init /\ [][FrameNext]_vars

\* ================================================================ claims
\* the positions of the match() calls in a trace
Calls(tr) == {a \in 1..Len(tr) : tr[a].ev = "match"}

\* the events of the match() call at position a: up to the next call
CallEnd(tr, a) ==
  LET later == {b \in Calls(tr) : b > a} IN
  IF later = {} THEN Len(tr) ELSE (CHOOSE b \in later : \A c \in later : b <= c) - 1

\* the match() call that the call at position a made for a sub-listener, or 0
SubCall(tr, a) == IF CallEnd(tr, a) < Len(tr) THEN CallEnd(tr, a) + 1 ELSE 0

\* the call at position a of handler t has not run yet
Waiting(t, a) == a = Len(t.trace) /\ t.pc = "match"

\* the validator_state of the call at position a: the validator's answer
StateOf(tr, a) ==
  IF a < Len(tr) /\ tr[a + 1].ev = "validator" /\ ~tr[a + 1].outcome.throws
  THEN tr[a + 1].outcome.val ELSE Undefined

\* the validator of the call at position a threw
Raised(tr, a) == a < Len(tr) /\ tr[a + 1].ev = "validator" /\ tr[a + 1].outcome.throws

\* C1: when the validator of a listener returns false, match() makes no call
\* for any sub-listener (no later validator or executor of another listener
\* runs) and the listener's own executor is the one resolved, called with
\* validator_state = false when it is a function.
C1_ValidatorFalse ==
  \A i \in 1..Len(tasks) :
    LET tr == tasks[i].trace IN
    \A j \in 1..Len(tr) :
      (tr[j].ev = "validator" /\ tr[j].outcome = Return(Bool(FALSE))) =>
         /\ Len(tr) = j + 1
         /\ tr[j + 1].node = tr[j].node
         /\ tasks[i].node = tr[j].node
         /\ IF nodes[tr[j].node].executor.kind = "function"
            THEN tr[j + 1].ev = "executor" /\ tr[j + 1].args[4] = Bool(FALSE)
            ELSE tr[j + 1].ev = "return"

\* a validator answered false although a sub-listener accepts the text, and
\* the executor got validator_state = false
C1_Witness ==
  \E i \in 1..Len(tasks) :
    LET tr == tasks[i].trace IN
    \E j \in 1..Len(tr) :
      /\ tr[j].ev = "validator" /\ tr[j].outcome = Return(Bool(FALSE))
      /\ \E k \in 1..Len(nodes[tr[j].node].listeners) :
            Matches(nodes[tr[j].node].listeners[k].key, tr[j].args[1].val)
      /\ j < Len(tr) /\ tr[j + 1].ev = "executor" /\ tr[j + 1].args[4] = Bool(FALSE)
      /\ tasks[i].pc = "done"

\* the position in listeners of the matcher that a sub-call consumed: the
\* last item of its stack
Consumed(listeners, stack) ==
  LET item == stack[Len(stack)]
      key == IF item.type = "Array" THEN item.items[1] ELSE item
  IN CHOOSE k \in 1..Len(listeners) : listeners[k].key = key

\* C2: the matchers of a listener are tried in insertion order and match()
\* descends into the listener of the first one that accepts the text: no
\* matcher registered before the consumed one accepts it, and the executor
\* of a listener is resolved only when none accepts it (or the validator
\* answered false).
C2_FirstRegisteredWins ==
  \A i \in 1..Len(tasks) :
    LET tr == tasks[i].trace IN
    \A a \in Calls(tr) :
      LET listeners == nodes[tr[a].node].listeners
          b == SubCall(tr, a)
      IN IF b # 0
         THEN LET k == Consumed(listeners, tr[b].stack) IN
              /\ Len(tr[b].stack) = Len(tr[a].stack) + 1
              /\ tr[b].node = listeners[k].node
              /\ Matches(listeners[k].key, tr[a].rest)
              /\ \A j \in 1..(k - 1) : ~Matches(listeners[j].key, tr[a].rest)
         ELSE (~Waiting(tasks[i], a) /\ ~Raised(tr, a) /\ StateOf(tr, a) # Bool(FALSE)) =>
                \A j \in 1..Len(listeners) : ~Matches(listeners[j].key, tr[a].rest)

\* match() descended through a matcher although a matcher registered later
\* accepts the text too
C2_Witness ==
  \E i \in 1..Len(tasks) :
    LET tr == tasks[i].trace IN
    \E a \in Calls(tr) :
      LET listeners == nodes[tr[a].node].listeners
          b == SubCall(tr, a)
      IN /\ b # 0
         /\ \E j \in 1..Len(listeners) :
              /\ j > Consumed(listeners, tr[b].stack)
              /\ Matches(listeners[j].key, tr[a].rest)
              /\ listeners[j].node # tr[b].node

\* the listener tree of the example: "get" is the first matcher of the
\* CliHelper and its listener has the raw executor "ok" and no sub-listener
GetOk ==
  /\ Len(nodes[1].listeners) >= 1
  /\ nodes[1].listeners[1].key = Str(get)
  /\ nodes[nodes[1].listeners[1].node] = CliListener(Static(Str(<<"ok">>)), NoOptions)

\* the handler has the result of this.match in hand
Matched(t) == t.pc \in {"render", "done", "rejected"}

\* C3 as stated: with the literal "get" registered with executor "ok", the
\* line "get" gives "ok" and the line "getter" does not: it falls through to
\* the executor of the parent.
C3_GetterFallsThrough ==
  \A i \in 1..Len(tasks) :
    (GetOk /\ Matched(tasks[i])) =>
       /\ tasks[i].line = get => tasks[i].returned = Str(<<"ok">>)
       /\ tasks[i].line = getter =>
            /\ tasks[i].returned # Str(<<"ok">>)
            /\ tasks[i].returned = Str(<<"Command ">> \o getter \o <<" not found.">>)

\* C3 as amended: with the literal "get" registered with executor "ok", the
\* lines "get" and "getter" both give "ok": a literal is matched as a bare
\* prefix, so "getter" descends into the listener of "get" with the
\* remainder "ter".
C3_GetterReachesChild ==
  \A i \in 1..Len(tasks) :
    (GetOk /\ Matched(tasks[i]) /\ tasks[i].line \in {get, getter}) =>
       /\ tasks[i].returned = Str(<<"ok">>)
       /\ tasks[i].node = nodes[1].listeners[1].node
       /\ tasks[i].line = getter => tasks[i].rest = <<"t", "e", "r">>

\* the line "getter" was answered "ok"
C3_Witness ==
  \E i \in 1..Len(tasks) :
    /\ GetOk
    /\ tasks[i].line = getter
    /\ tasks[i].pc = "done"
    /\ tasks[i].printed = << <<"cli: ">> \o <<"ok">> >>

\* r is text without its leading and trailing whitespace
IsTrimOf(r, text) ==
  \E a \in 0..Len(text), b \in 0..Len(text) :
    /\ a + Len(r) + b = Len(text)
    /\ SubSeq(text, a + 1, a + Len(r)) = r
    /\ \A j \in 1..a : IsSpace(text[j])
    /\ \A j \in (Len(text) - b + 1)..Len(text) : IsSpace(text[j])
    /\ r # <<>> => ~IsSpace(r[1]) /\ ~IsSpace(r[Len(r)])

IsLeftTrimOf(child, text) ==
  \E n \in 0..Len(text) :
    /\ \A j \in 1..n : IsSpace(text[j])
    /\ SubSeq(text, n + 1, Len(text)) = child
    /\ child # <<>> => ~IsSpace(child[1])

\* the call at position a tries its sub-listeners
Tries(t, a) ==
  ~Waiting(t, a) /\ ~Raised(t.trace, a) /\ StateOf(t.trace, a) # Bool(FALSE)

\* the stack item that the sub-call at position b consumed
Item(tr, b) == tr[b].stack[Len(tr[b].stack)]

\* the example tree: "get" first on the CliHelper, "pies" first on its
\* listener, no validator on the way
GetPies ==
  /\ Len(nodes[1].listeners) >= 1
  /\ nodes[1].listeners[1].key = Str(get)
  /\ LET g == nodes[nodes[1].listeners[1].node] IN
       /\ g.validator = Undefined
       /\ Len(g.listeners) >= 1
       /\ g.listeners[1].key = Str(pies)
       /\ nodes[g.listeners[1].node] = CliListener(Fn("getPies"), NoOptions)

\* C5: a literal matcher is consumed only if the text starts with it, and
\* the first matcher of a listener, when a literal, is consumed iff the text
\* starts with it; the sub-listener is then called with the text after the
\* literal minus its leading whitespace, the stack plus the literal, and no
\* match array.  So "get pies" reaches the listener of "pies" under "get".
C5_LiteralMatcher ==
  \A i \in 1..Len(tasks) :
    LET t == tasks[i]
        tr == t.trace
    IN /\ \A a \in Calls(tr) :
            LET listeners == nodes[tr[a].node].listeners
                b == SubCall(tr, a)
            IN /\ (b # 0 /\ Item(tr, b).type = "string") =>
                    LET lit == Item(tr, b).val IN
                    /\ Len(lit) <= Len(tr[a].rest)
                    /\ SubSeq(tr[a].rest, 1, Len(lit)) = lit
                    /\ IsLeftTrimOf(tr[b].rest,
                                    SubSeq(tr[a].rest, Len(lit) + 1, Len(tr[a].rest)))
                    /\ tr[b].stack = tr[a].stack \o <<Str(lit)>>
                    /\ tr[b].matches = Null
               /\ (Tries(t, a) /\ listeners # <<>> /\ listeners[1].key.type = "string") =>
                    LET lit == listeners[1].key.val IN
                    (Len(lit) <= Len(tr[a].rest) /\ SubSeq(tr[a].rest, 1, Len(lit)) = lit)
                      <=> (b # 0 /\ Item(tr, b) = Str(lit) /\ tr[b].node = listeners[1].node)
       /\ (GetPies /\ Matched(t) /\ t.line = get \o space \o pies) =>
            /\ t.returned = Str(<<"cake">>)
            /\ t.stack = <<Str(get), Str(pies)>>
            /\ t.rest = <<>>

\* the line "get pies" was answered "cake"
C5_Witness ==
  \E i \in 1..Len(tasks) :
    /\ GetPies
    /\ tasks[i].line = get \o space \o pies
    /\ tasks[i].pc = "done"
    /\ tasks[i].printed = << <<"cli: ">> \o <<"cake">> >>

\* the pattern matches at 0-based position p of text
OccursAt(re, text, p) ==
  /\ re.anch => p = 0
  /\ p + Len(re.pre) <= Len(text)
  /\ SubSeq(text, p + 1, p + Len(re.pre)) = re.pre
  /\ re.grp => p + Len(re.pre) < Len(text)

\* the length of the text matched at position p
MatchedLen(re, text, p) == IF re.grp THEN Len(text) - p ELSE Len(re.pre)

\* C6: a pattern matcher is consumed only if the pattern matches somewhere
\* in the text, and the first matcher of a listener, when a pattern, is
\* consumed iff it matches somewhere; the sub-listener is then called with
\* the text minus the leftmost match (the text before and after it kept)
\* minus its leading whitespace, and the stack plus (pattern, match array).
C6_PatternMatcher ==
  \A i \in 1..Len(tasks) :
    LET t == tasks[i]
        tr == t.trace
    IN \A a \in Calls(tr) :
         LET listeners == nodes[tr[a].node].listeners
             b == SubCall(tr, a)
             text == tr[a].rest
         IN /\ (b # 0 /\ Item(tr, b).type = "Array") =>
                 LET re == Item(tr, b).items[1]
                     m == Item(tr, b).items[2]
                 IN /\ OccursAt(re, text, m.index)
                    /\ \A q \in 0..(m.index - 1) : ~OccursAt(re, text, q)
                    /\ m.groups[1] =
                         Str(SubSeq(text, m.index + 1, m.index + MatchedLen(re, text, m.index)))
                    /\ IsLeftTrimOf(tr[b].rest,
                         SubSeq(text, 1, m.index) \o
                         SubSeq(text, m.index + MatchedLen(re, text, m.index) + 1, Len(text)))
                    /\ tr[b].stack = tr[a].stack \o <<Arr(<<re, m>>)>>
            /\ (Tries(t, a) /\ listeners # <<>> /\ listeners[1].key.type = "RegExp") =>
                 ((\E q \in 0..Len(text) : OccursAt(listeners[1].key, text, q))
                    <=> (b # 0 /\ Item(tr, b).type = "Array"
                         /\ Item(tr, b).items[1] = listeners[1].key
                         /\ tr[b].node = listeners[1].node))

\* a pattern matched after the start of the text and the text before the
\* match was passed on
C6_Witness ==
  \E i \in 1..Len(tasks) :
    LET tr == tasks[i].trace IN
    \E b \in Calls(tr) :
      /\ tr[b].stack # <<>>
      /\ Item(tr, b).type = "Array"
      /\ Item(tr, b).items[2].index > 0
      /\ tr[b].rest = get \o space
      /\ tasks[i].pc = "done"

\* the match array a call must have got: that of the pattern it was reached
\* through, none for the CliHelper and for a literal
Expected(tr, a) ==
  IF tr[a].stack = <<>> \/ Item(tr, a).type = "string" THEN Null
  ELSE Item(tr, a).items[2]

\* the example tree: /coffee-(.+)/ first on the CliHelper, its executor
\* returns matches[1]
Coffee ==
  /\ Len(nodes[1].listeners) >= 1
  /\ nodes[1].listeners[1].key = RegExp(FALSE, coffee, TRUE)
  /\ nodes[nodes[1].listeners[1].node].executor = Fn("wanted")

Reregistered(this, key) ==
  /\ key.type = "string"
  /\ Len(nodes') = Len(nodes) + 1
  /\ \E k \in 1..Len(nodes[this].listeners) : nodes[this].listeners[k].key = key
  /\ \E k \in 1..Len(nodes'[this].listeners) :
       /\ nodes'[this].listeners[k].key = key
       /\ nodes'[this].listeners[k].node = Len(nodes')

\* the listeners that listener `this` mapped the key to before the step
Earlier(this, key) ==
  {nodes[this].listeners[k].node : k \in {j \in 1..Len(nodes[this].listeners) :
                                            nodes[this].listeners[j].key = key}}

\* the literals registered on listener `this`
Literals(this) ==
  {nodes[this].listeners[k].key : k \in {j \in 1..Len(nodes[this].listeners) :
                                           nodes[this].listeners[j].key.type = "string"}}

\* C8 as stated: registering a literal a second time on a listener replaces
\* the mapped listener, and the earlier one is then no longer a sub-listener
\* of that parent under any matcher (unreachable from it for every input).
C8_EarlierUnreachable ==
  [][\A this \in 1..Len(nodes) : \A key \in Literals(this) :
       Reregistered(this, key) =>
         \A k \in 1..Len(nodes'[this].listeners) :
           /\ nodes'[this].listeners[k].key = key =>
                nodes'[this].listeners[k].node = Len(nodes')
           /\ nodes'[this].listeners[k].node \notin Earlier(this, key)]_vars

\* C8 as amended: registering a literal a second time on a listener replaces
\* the mapped listener: the parent then maps the literal to the second
\* listener only, and the earlier one is no longer reached through that
\* literal; it stays a sub-listener of the parent exactly under the other
\* matchers it was registered with (an array of names, or the listener
\* passed again).
C8_ReplacesMapped ==
  [][\A this \in 1..Len(nodes) : \A key \in Literals(this) :
       Reregistered(this, key) =>
         LET before == nodes[this].listeners
             after == nodes'[this].listeners
         IN /\ Cardinality({k \in 1..Len(after) : after[k].key = key}) = 1
            /\ Cardinality(Earlier(this, key)) = 1
            /\ Len(nodes') \notin Earlier(this, key)
            /\ \A k \in 1..Len(after) :
                 /\ after[k].key = key => after[k].node = Len(nodes')
                 /\ after[k].node \in Earlier(this, key) =>
                      /\ after[k].key # key
                      /\ \E j \in 1..Len(before) : before[j] = after[k]
            /\ \A text \in Lines :
                 LET k == FirstMatch(after, text) IN
                 (k # 0 /\ after[k].node \in Earlier(this, key)) => after[k].key # key]_vars

\* command(['pies', 'get'], ...) then command('get', ...) on the CliHelper:
\* "get" is mapped to the second listener, the first one is left under "pies"
C8_Witness ==
  /\ Len(nodes) = 3
  /\ nodes[2].executor = Fn("addPie")
  /\ nodes[1].listeners = <<[key |-> Str(pies), node |-> 2], [key |-> Str(get), node |-> 3]>>

\* what the dispatch of handler t threw: the outcome of its last validator
\* or executor call, when it threw
Thrown(t) ==
  IF t.trace # <<>> /\ t.trace[Len(t.trace)].ev = "validator"
     /\ t.trace[Len(t.trace)].outcome.throws
  THEN {t.trace[Len(t.trace)].outcome.val}
  ELSE IF t.pc \in {"render", "done", "rejected"} /\ t.pending # Undefined /\ t.pending.throws
  THEN {t.pending.val}
  ELSE {}

\* C9: what an executor or validator throws during a dispatched line is
\* given to onerror exactly once: an Error as it is, a string wrapped in an
\* Error whose message is the string; nothing is printed for that line, and
\* onerror is never called before the result of match is in hand.
C9_ThrownToOnError ==
  \A i \in 1..Len(tasks) :
    LET t == tasks[i] IN
    /\ Len(t.errors) <= 1
    /\ t.pc \in {"match", "exec", "render"} => t.errors = <<>> /\ t.printed = <<>>
    /\ \A e \in Thrown(t) :
         t.pc \in {"done", "rejected"} =>
           /\ t.printed = <<>>
           /\ Len(t.errors) = 1
           /\ t.errors[1].type = "Error"
           /\ e.type = "Error" => t.errors[1] = e
           /\ e.type = "string" => t.errors[1].message = e.val

\* an executor threw a plain string and onerror got an Error with that
\* message
C9_Witness ==
  \E i \in 1..Len(tasks) :
    /\ tasks[i].pc = "done"
    /\ tasks[i].pending = Throw(Str(<<"plain string">>))
    /\ tasks[i].errors = <<Err(<<"plain string">>)>>
    /\ tasks[i].printed = <<>>

\* C10: whatever the outcome of a dispatched line, no error escapes the line
\* handler and the prompt is re-issued: a handler that has the result of
\* match in hand is never left rejected, and it ends having prompted once.
C10_AlwaysReprompts ==
  \A i \in 1..Len(tasks) :
    /\ tasks[i].pc # "rejected"
    /\ tasks[i].pc = "done" => tasks[i].prompts = 1

\* the handler has run to its end (or was left by an exception of onerror)
Through(t) == t.trace # <<>> /\ t.pc \in {"done", "rejected"}

\* what the handler printed and gave to onerror for its result, given the
\* types that count as an object result
ShownAs(t, printable) ==
  LET r == t.returned IN
  /\ r.type = "string" => t.printed = << <<"cli: ">> \o r.val >> /\ t.errors = <<>>
  /\ r.type = "Error" => t.printed = <<>> /\ t.errors = <<r>>
  /\ (r.type # "string" /\ r.type # "Error" /\ r.type \in printable) =>
       t.printed = << <<"cli:", r>> >> /\ t.errors = <<>>
  /\ (r.type # "string" /\ r.type # "Error" /\ r.type \notin printable) =>
       t.printed = <<>> /\ t.errors = <<>>
  /\ Len(t.printed) + Len(t.errors) <= 1
  /\ (t.pending # Undefined /\ t.pending.throws) => r.type = "Error"
  /\ (t.pending # Undefined /\ ~t.pending.throws) => r = t.pending.val

\* C11 as stated: a string result is printed with the prefix, an Error
\* (thrown or returned) goes to onerror and is not printed, any other object
\* is printed with the prefix, and anything else (undefined, null, a
\* boolean) prints nothing; one of the four happens per dispatched line.
C11_RenderedByShape ==
  \A i \in 1..Len(tasks) :
    Through(tasks[i]) => ShownAs(tasks[i], {"object", "Array", "RegExpMatchArray"})

\* C11 as amended: a string result is printed with the prefix, an Error
\* (thrown or returned) goes to onerror and is not printed, any other result
\* whose typeof is 'object' is printed with the prefix, null included, and
\* anything else (undefined, a boolean) prints nothing; one of the four
\* happens per dispatched line.
C11_NullPrinted ==
  \A i \in 1..Len(tasks) :
    Through(tasks[i]) => ShownAs(tasks[i], {"object", "Array", "RegExpMatchArray", "null"})

\* one executor returned null, which was printed, and another returned an
\* Error, which went to onerror
C11_Witness ==
  /\ \E i \in 1..Len(tasks) :
       /\ tasks[i].pc = "done"
       /\ tasks[i].pending = Return(Null)
       /\ tasks[i].printed = << <<"cli:", Null>> >>
  /\ \E i \in 1..Len(tasks) :
       /\ tasks[i].pc = "done"
       /\ tasks[i].pending = Return(Err(<<"No such pie.">>))
       /\ tasks[i].errors = <<Err(<<"No such pie.">>)>>
       /\ tasks[i].printed = <<>>

RECURSIVE Joined(_)
\* continuation lines put in one text, each marker replaced by one space
Joined(lines) ==
  IF lines = <<>> THEN <<>>
  ELSE SubSeq(Head(lines), 1, Len(Head(lines)) - 1) \o space \o Joined(Tail(lines))

\* the one line that a submitted line and the continuation lines before it
\* stand for
OneLine(t) == Joined(t.prior) \o t.input

\* C12: of a run of submitted lines of which all but the last end with the
\* continuation marker, none but the last is dispatched, and the last one is
\* dispatched exactly as their concatenation with each marker replaced by a
\* space would be in one line; while such a run is open the interface keeps
\* that concatenation as what the next line is appended to.
C12_Continuation ==
  /\ \A k \in 1..rl_interface : typed[k] # <<>> => buffer[k] = Joined(typed[k])
  /\ \A i \in 1..Len(tasks) :
       LET t == tasks[i] IN
       IF endsWith(t.input, marker)
       THEN t.pc = "buffered" /\ t.trace = <<>>
       ELSE IF OneLine(t) = <<>>
       THEN t.pc = "empty" /\ t.trace = <<>>
       ELSE /\ t.line = OneLine(t)
            /\ t.trace # <<>>
            /\ t.trace[1] = Called(1, trim(OneLine(t)), <<>>, Null)
            /\ Cardinality({a \in Calls(t.trace) : t.trace[a].stack = <<>>}) = 1

\* a handler that did nothing at all
Discarded(t) ==
  /\ t.pc = "ignored" /\ t.trace = <<>>
  /\ t.printed = <<>> /\ t.errors = <<>> /\ t.prompts = 0

\* C13: a line that reaches the 'line' handler while on_question is true is
\* discarded: match is not called, nothing is printed or given to onerror,
\* no prompt is issued, and the continuation buffer of the interface (and the
\* lines it stands for) is left as it was.
C13_DiscardedWhileAsking ==
  /\ [](\A i \in 1..Len(tasks) : tasks[i].flag => Discarded(tasks[i]))
  /\ [][nlines' = nlines + 1 =>
          \A i \in 1..Len(tasks') :
            tasks'[i].flag =>
              /\ Discarded(tasks'[i])
              /\ buffer'[tasks'[i].rl] = buffer[tasks'[i].rl]
              /\ typed'[tasks'[i].rl] = typed[tasks'[i].rl]]_vars

\* a line was discarded by an interface that holds a continuation
C13_Witness ==
  \E i \in 1..Len(tasks) :
    /\ tasks[i].flag /\ tasks[i].pc = "ignored"
    /\ tasks[i].input = pies
    /\ buffer[tasks[i].rl] = get \o space \o space

\* C14: a line submitted while a question waits for its answer is never
\* passed to match, whatever question(), listen() and line events came
\* before.
C14_NoDispatchWhileAsked ==
  \A i \in 1..Len(tasks) : tasks[i].asked => tasks[i].trace = <<>>

\* the question callbacks that a submitted line answers: one per interface
\* on which a question waits
Answered ==
  {q \in 1..Len(promises) : Waits(promises[q])}

\* C15: question() sets on_question and hands the question to the newest
\* interface, creating it when there is none; the line that answers it
\* resolves the promise with exactly that line and resets on_question; and
\* on_question is true only while a question waits for its answer.
C15_QuestionFlag ==
  /\ [](on_question => Answered # {})
  /\ [][Len(promises') = Len(promises) + 1 =>
          /\ on_question'
          /\ rl_interface' = (IF rl_interface = 0 THEN 1 ELSE rl_interface)
          /\ promises'[Len(promises')].rl = rl_interface'
          /\ promises'[Len(promises')].answer = Undefined
          /\ promises'[Len(promises')].registered
               <=> ~\E q \in Answered : promises[q].rl = rl_interface']_vars
  /\ [][\A input \in AskLines :
          (LineEvent(input) /\ Answered # {}) =>
             /\ ~on_question'
             /\ \A q \in 1..Len(promises) :
                  promises'[q].answer =
                    (IF q \in Answered THEN Str(input) ELSE promises[q].answer)]_vars

\* a question was answered with the line "get" and the flag is reset
C15_Witness ==
  /\ ~on_question
  /\ \E q \in 1..Len(promises) :
       promises[q].registered /\ promises[q].answer = Str(get)

\* a match() call started by the handler is in progress
Dispatching(t) == t.pc \in {"match", "exec"}

\* C16: the handler of an interface never has two match invocations in
\* progress at once, also when a line is submitted while the dispatch of
\* the line before is suspended on a validator or an executor.
C16_OneDispatchAtATime ==
  \A i \in 1..Len(tasks), j \in 1..Len(tasks) :
    (i # j /\ tasks[i].rl = tasks[j].rl) =>
       ~(Dispatching(tasks[i]) /\ Dispatching(tasks[j]))

\* C20: the validator_state an executor gets is that of the call it is
\* resolved in: undefined iff its listener has no validator, otherwise what
\* the validator of that listener returned in this call, to which it was
\* called with the (rest, matches) of the call; what the validator of an
\* ancestor returned is not passed down.
C20_OwnValidatorState ==
  \A i \in 1..Len(tasks) :
    LET tr == tasks[i].trace IN
    \A j \in 1..Len(tr) :
      tr[j].ev = "executor" =>
        LET a == CHOOSE c \in Calls(tr) : c < j /\ CallEnd(tr, c) >= j
            state == tr[j].args[4]
        IN /\ tr[a].node = tr[j].node
           /\ state = Undefined <=> nodes[tr[j].node].validator = Undefined
           /\ IF nodes[tr[j].node].validator = Undefined
              THEN j = a + 1
              ELSE /\ j = a + 2
                   /\ tr[a + 1].ev = "validator"
                   /\ tr[a + 1].node = tr[j].node
                   /\ tr[a + 1].args = <<Str(tr[a].rest), tr[a].matches>>
                   /\ tr[a + 1].outcome \in {Return(Bool(TRUE)), Return(Bool(FALSE))}
                   /\ state = tr[a + 1].outcome.val
                   /\ tr[j].args[1] = tr[a + 1].args[1]

\* the validator of a listener returned true, and the executor of its
\* sub-listener, which has no validator, got undefined; and an executor got
\* the true that the validator of its own listener returned
C20_Witness ==
  /\ \E i \in 1..Len(tasks) :
       LET tr == tasks[i].trace IN
       \E j \in 1..Len(tr), v \in 1..Len(tr) :
         /\ v < j
         /\ tr[v].ev = "validator" /\ tr[v].outcome = Return(Bool(TRUE))
         /\ tr[j].ev = "executor" /\ tr[j].node # tr[v].node
         /\ tr[j].args[4] = Undefined
         /\ tasks[i].pc = "done"
  /\ \E i \in 1..Len(tasks) :
       LET tr == tasks[i].trace IN
       \E j \in 2..Len(tr) :
         /\ tr[j].ev = "executor" /\ tr[j].args[4] = Bool(TRUE)
         /\ tr[j - 1].ev = "validator" /\ tr[j - 1].node = tr[j].node

RECURSIVE Reach(_, _)
\* how many listeners match() descends through for a text, from listener
\* `this` on (no validator on the way)
Reach(this, rest) ==
  LET listeners == nodes[this].listeners
      k == FirstMatch(listeners, rest)
  IN IF k = 0 THEN 0
     ELSE 1 + Reach(listeners[k].node, Descend(listeners[k].key, rest, <<>>).rest)

\* getSuggests was called for the completer's line
Suggested == completion # Undefined /\ completion.suggested

\* C17: every match that getSuggests returns for a text is a string that,
\* submitted as a line, makes match() descend through more listeners than
\* the text itself does.
C17_SuggestionContainment ==
  Suggested =>
    \A j \in 1..Len(completion.matches) :
      /\ completion.matches[j].type = "string"
      /\ Reach(1, trim(completion.matches[j].val)) > Reach(1, trim(completion.line))

\* C18: getSuggests calls no executor: the only callbacks it calls are
\* suggestors, each the suggestor of its listener with (rest, stack), and the
\* handlers' records show no executor call made by it.
C18_NoExecutorCalled ==
  Suggested =>
    /\ \A c \in 1..Len(completion.calls) :
         /\ completion.calls[c].ev = "suggestor"
         /\ nodes[completion.calls[c].node].suggestor # Undefined
         /\ Len(completion.calls[c].args) = 2
    /\ \A i \in 1..Len(tasks) : \A j \in 1..Len(tasks[i].trace) :
         tasks[i].trace[j].ev # "executor"

\* getSuggests called the suggestor of the listener of "get" for "get p"
C18_Witness ==
  /\ Suggested
  /\ completion.line = get \o space \o <<"p">>
  /\ Len(completion.calls) = 1
  /\ completion.calls[1].ev = "suggestor"
  /\ completion.calls[1].args = <<Str(<<"p">>), Arr(<<Str(get)>>)>>
  /\ nodes[completion.calls[1].node].executor = Static(Str(<<"ok">>))

\* text e goes on from text line: it starts with it and is longer
Extends(e, line) == Len(e) > Len(line) /\ SubSeq(e, 1, Len(line)) = line

\* C19: what the completer gives for a line is the line itself together
\* with candidates that all extend it strictly; they are the matches of
\* getSuggests for the line that do so (none while a continuation is being
\* typed).
C19_StrictExtensions ==
  (completion # Undefined /\ completion.err = Null) =>
    LET candidates == completion.value[1].items IN
    /\ completion.value[2] = Str(completion.line)
    /\ \A j \in 1..Len(candidates) :
         /\ Extends(candidates[j].val, completion.line)
         /\ completion.suggested
         /\ \E m \in 1..Len(completion.matches) : completion.matches[m] = candidates[j]
    /\ completion.suggested =>
         \A m \in 1..Len(completion.matches) :
           Extends(completion.matches[m].val, completion.line) =>
             \E j \in 1..Len(candidates) : candidates[j] = completion.matches[m]

\* for the line "get" getSuggests found "get" and "get pies", and the
\* completer kept "get pies" but not "get"
C19_Witness ==
  /\ Suggested /\ completion.err = Null
  /\ completion.line = get
  /\ \E m \in 1..Len(completion.matches) : completion.matches[m] = Str(get)
  /\ \E j \in 1..Len(completion.value[1].items) :
       completion.value[1].items[j] = Str(get \o space \o pies)
  /\ \A j \in 1..Len(completion.value[1].items) :
       completion.value[1].items[j] # Str(get)

\* the match() call in which the event at position j of a trace happened
CallOf(tr, j) == CHOOSE c \in Calls(tr) : c <= j /\ CallEnd(tr, c) >= j

\* the validator calls of listener n in a trace
ValidatorCalls(tr, n) == {v \in 1..Len(tr) : tr[v].ev = "validator" /\ tr[v].node = n}

\* C21: when the executor of a listener is called, the match() calls of the
\* dispatch are the path from the CliHelper to that listener, each made by
\* the one before for one of its sub-listeners; every listener on the path
\* that has a validator had it called exactly once, first thing in its own
\* call (so in path order and before the executor), and it did not throw;
\* the validator of every listener above the last returned a value other
\* than false.
C21_ValidatorsOnPath ==
  \A i \in 1..Len(tasks) :
    LET tr == tasks[i].trace IN
    \A j \in 1..Len(tr) :
      tr[j].ev = "executor" =>
        LET n == CallOf(tr, j) IN
        /\ tr[1].ev = "match" /\ tr[1].node = 1 /\ tr[1].stack = <<>>
        /\ tr[n].node = tr[j].node
        /\ \A a \in Calls(tr) :
             /\ a <= n
             /\ a # n =>
                  /\ SubCall(tr, a) # 0
                  /\ \E k \in 1..Len(nodes[tr[a].node].listeners) :
                       nodes[tr[a].node].listeners[k].node = tr[SubCall(tr, a)].node
                  /\ Len(tr[SubCall(tr, a)].stack) = Len(tr[a].stack) + 1
             /\ IF nodes[tr[a].node].validator = Undefined
                THEN ValidatorCalls(tr, tr[a].node) = {}
                ELSE /\ ValidatorCalls(tr, tr[a].node) = {a + 1}
                     /\ a + 1 < j
                     /\ ~tr[a + 1].outcome.throws
                     /\ a # n => tr[a + 1].outcome.val # Bool(FALSE)

\* an executor was called two listeners deep, after the validators of the
\* listener above and of its own listener, in this order
C21_Witness ==
  \E i \in 1..Len(tasks) :
    LET tr == tasks[i].trace IN
    /\ Len(tr) = 6
    /\ tr[2].ev = "match" /\ tr[2].node = 2
    /\ tr[3].ev = "validator" /\ tr[3].node = 2 /\ tr[3].outcome = Return(Bool(TRUE))
    /\ tr[4].ev = "match" /\ tr[4].node = 3
    /\ tr[5].ev = "validator" /\ tr[5].node = 3
    /\ tr[6].ev = "executor" /\ tr[6].node = 3
    /\ tasks[i].pc = "done"

\* C22: what a validator or an executor throws (or rejects with) comes out
\* of match() as it is and reaches the catch of the line handler, which
\* gives it to onerror; when a validator throws, its match() call is the
\* last of the dispatch: no sub-listener is called, no executor is called
\* and no raw executor is returned.
C22_ThrownPropagates ==
  \A i \in 1..Len(tasks) :
    LET t == tasks[i]
        tr == t.trace
    IN /\ \A j \in 1..Len(tr) :
            (tr[j].ev = "validator" /\ tr[j].outcome.throws) =>
               /\ j = Len(tr)
               /\ tr[j - 1].ev = "match" /\ tr[j - 1].node = tr[j].node
               /\ t.node = tr[j].node
               /\ \A b \in 1..Len(tr) : tr[b].ev \notin {"executor", "return"}
               /\ t.pending = Undefined
               /\ Matched(t)
               /\ t.returned = Caught(tr[j].outcome.val)
               /\ tr[j].outcome.val.type = "Error" => t.returned = tr[j].outcome.val
               /\ t.pc \in {"done", "rejected"} =>
                    t.errors = <<t.returned>> /\ t.printed = <<>>
       /\ (t.pending # Undefined /\ t.pending.throws) =>
            /\ tr[Len(tr)].ev = "executor"
            /\ t.pc = "exec" => t.returned = Undefined
            /\ Matched(t) =>
                 /\ t.returned = Caught(t.pending.val)
                 /\ t.pending.val.type = "Error" => t.returned = t.pending.val
            /\ t.pc \in {"done", "rejected"} =>
                 t.errors = <<t.returned>> /\ t.printed = <<>>

\* the validator of a listener threw although a sub-listener accepts the
\* text, and the executor of another dispatch threw; onerror got both errors
C22_Witness ==
  /\ \E i \in 1..Len(tasks) :
       LET tr == tasks[i].trace IN
       /\ tr # <<>>
       /\ tr[Len(tr)].ev = "validator" /\ tr[Len(tr)].outcome.throws
       /\ \E k \in 1..Len(nodes[tasks[i].node].listeners) :
            Matches(nodes[tasks[i].node].listeners[k].key, tasks[i].rest)
       /\ tasks[i].pc = "done"
       /\ tasks[i].errors = <<Err(<<"Database is gone.">>)>>
  /\ \E i \in 1..Len(tasks) :
       /\ tasks[i].pending = Throw(Err(<<"Pie already exists.">>))
       /\ tasks[i].pc = "done"
       /\ tasks[i].errors = <<Err(<<"Pie already exists.">>)>>

\* the position of a matcher in a sequence of matchers, 0 when absent
IndexOf(names, key) ==
  IF \E x \in 1..Len(names) : names[x] = key
  THEN CHOOSE x \in 1..Len(names) : names[x] = key ELSE 0

\* what the command() call d on listener `this`, passing an existing
\* listener, leaves behind
Reused(this, d) ==
  LET id == d.executor.id
      names == d.command_name
      before == nodes[this].listeners
      after == nodes'[this].listeners
  IN /\ Len(nodes') = Len(nodes)
     /\ \A n \in 1..Len(nodes) :
          /\ nodes'[n].executor = nodes[n].executor
          /\ n # this => nodes'[n].listeners = nodes[n].listeners
          /\ n # id => /\ nodes'[n].validator = nodes[n].validator
                       /\ nodes'[n].suggestor = nodes[n].suggestor
     /\ nodes'[id].validator = (IF d.options.onValidateBefore # Undefined
                                THEN d.options.onValidateBefore ELSE nodes[id].validator)
     /\ nodes'[id].suggestor = (IF d.options.onSuggest # Undefined
                                THEN d.options.onSuggest ELSE nodes[id].suggestor)
     /\ \A x \in 1..Len(names) :
          /\ Cardinality({k \in 1..Len(after) : after[k].key = names[x]}) = 1
          /\ MapGet(after, names[x]) = id
     /\ Len(after) >= Len(before)
     /\ \A k \in 1..Len(before) :
          /\ after[k].key = before[k].key
          /\ IndexOf(names, before[k].key) = 0 => after[k].node = before[k].node
     /\ \A k \in (Len(before) + 1)..Len(after) :
          /\ IndexOf(names, after[k].key) # 0
          /\ IndexOf(keys(before), after[k].key) = 0
          /\ \A j \in (Len(before) + 1)..(k - 1) :
               IndexOf(names, after[j].key) < IndexOf(names, after[k].key)

\* C23: a command() call that passes an existing listener makes no new
\* listener: the parent maps the matcher, or every matcher of the array in
\* its order, to that listener (the one command() returns), and keeps its
\* other entries; an option that is given replaces the validator or the
\* suggestor of the listener, an option that is omitted leaves it; the
\* executor of every listener stays, and so do the sub-listeners of every
\* listener but the parent, which gets the new entries.
C23_ReusesListener ==
  [][\A this \in 1..Len(nodes) : \A id \in 1..Len(nodes) : \A d \in Aliases(id) :
       Command(this, d) => Reused(this, d)]_vars

\* "get" was registered with a validator and a suggestor, then its listener
\* again under ['pies', /coffee-(.+)/] with another validator: one listener
\* under three matchers, the validator replaced, the suggestor kept, and a
\* line that starts with "get" had the validator of the listener called
C23_Witness ==
  /\ Len(nodes) = 2
  /\ keys(nodes[1].listeners) = <<Str(get), Str(pies), RegExp(FALSE, coffee, TRUE)>>
  /\ \A k \in 1..3 : nodes[1].listeners[k].node = 2
  /\ nodes[2] = [executor |-> Static(Str(<<"ok">>)), validator |-> Fn("localValidate"),
                 suggestor |-> Fn("suggestor"), listeners |-> <<>>]
  /\ \E i \in 1..Len(tasks) :
       /\ tasks[i].line = get /\ tasks[i].pc = "done"
       /\ \E j \in 1..Len(tasks[i].trace) :
            tasks[i].trace[j].ev = "validator" /\ tasks[i].trace[j].node = 2

\* an interface of the program is closed
Closed == \E k \in 1..rl_interface : closed[k]

\* C24: when an interface closes (close() or the end of stdin, with one or
\* several interfaces), this.onclose is called, once in the life of the
\* program, and the process is ended right after it; from then on no line
\* is passed to match and no handler in progress takes another step.
C24_CloseOnceThenExit ==
  /\ [](goodbyes <= 1)
  /\ [](Closed => goodbyes = 1 /\ exited)
  /\ [](exited => Closed)
  /\ [][(\E k \in 1..rl_interface : closed'[k] /\ ~closed[k]) =>
          /\ ~exited /\ goodbyes = 0
          /\ exited' /\ goodbyes' = 1
          /\ UNCHANGED <<tasks, nlines, buffer>>]_vars
  /\ [][Closed => UNCHANGED <<tasks, nlines, buffer, goodbyes>>]_vars

\* stdin ended with two interfaces open and a dispatch in progress: onclose
\* was called once and the process ended with the dispatch unfinished
C24_Witness ==
  /\ exited /\ goodbyes = 1
  /\ closed = <<TRUE, TRUE>>
  /\ \E i \in 1..Len(tasks) : Dispatching(tasks[i])

\* C25: match of the CliHelper is called for a submitted line only if the
\* continuation buffer plus the line is not empty once trimmed (not for a
\* line of whitespace, nor for an empty line after a lone continuation
\* marker), and it is then called with the trimmed text, an empty stack and
\* null as the match array.
C25_NoEmptyDispatch ==
  \A i \in 1..Len(tasks) :
    LET t == tasks[i] IN
    t.trace # <<>> =>
      /\ t.trace[1] = Called(1, trim(t.line), <<>>, Null)
      /\ trim(t.line) # <<>>

\* the field of the instance that a direct program would pass to command():
\* a function of the instance itself (written 0)
Own(class, name) ==
  IF name \notin DOMAIN Fields(class) THEN Undefined
  ELSE IF Fields(class)[name].kind = "function" THEN Fields(class)[name] @@ [self |-> 0]
  ELSE Fields(class)[name]

RECURSIVE DirectCalls(_, _, _, _)
\* the command() calls that declare on listener `this` what the decorators
\* of a class declare, from the k-th declaration on, each followed by the
\* calls for the class of the command
DirectCalls(listeners, this, class, k) ==
  IF k > Len(Decorated[class]) THEN listeners
  ELSE
    LET data == Decorated[class][k]
        new_one == Len(listeners) + 1
    IN IF data.kind = "executor"
       THEN DirectCalls(
              DirectCalls(
                commandOn(listeners, this,
                  Declaration(<<data.name>>, Own(data.executor, "executor"),
                    [onValidateBefore |-> Own(data.executor, "onValidateBefore"),
                     onSuggest |-> Own(data.executor, "onSuggest")])),
                new_one, data.executor, 1),
              this, class, k + 1)
       ELSE DirectCalls(
              commandOn(listeners, this,
                Declaration(<<data.name>>, Own(class, data.executor),
                  [onValidateBefore |->
                     IF IsPropertyName(data.options.onValidateBefore)
                     THEN Own(class, data.options.onValidateBefore.val[1])
                     ELSE data.options.onValidateBefore,
                   onSuggest |->
                     IF IsPropertyName(data.options.onSuggest)
                     THEN Own(class, data.options.onSuggest.val[1])
                     ELSE data.options.onSuggest])),
              this, class, k + 1)

\* new CliHelper({ onNoMatch, onSuggest }) followed by the command() calls
\* for the main class
Direct(class) ==
  DirectCalls(<<CliListener(Own(class, "onNoMatch"),
                            [onValidateBefore |-> Undefined,
                             onSuggest |-> Own(class, "onSuggest")])>>,
              1, class, 1)

\* a function of the instance that owns the listener is written as in a
\* direct program (0); a function of any other instance is left as it is
Relative(f, owner) ==
  IF "self" \in DOMAIN f /\ f.self = owner THEN [f EXCEPT !.self = 0] ELSE f

RECURSIVE Tree(_, _, _, _)
\* the listener tree under listener id: executors, validators, suggestors
\* and matchers in order; a listener kept by an instance belongs to it, any
\* other listener to the instance of its parent
Tree(listeners, objs, id, parent) ==
  LET kept == {o \in 1..Len(objs) : objs[o].listener = id}
      owner == IF kept = {} THEN parent ELSE CHOOSE o \in kept : TRUE
      this == listeners[id]
  IN [executor |-> Relative(this.executor, owner),
      validator |-> Relative(this.validator, owner),
      suggestor |-> Relative(this.suggestor, owner),
      listeners |-> [k \in 1..Len(this.listeners) |->
                       [key |-> this.listeners[k].key,
                        listener |-> Tree(listeners, objs, this.listeners[k].node, owner)]]]

\* the instances of the main class
Mains == {o \in 1..Len(objects) : objects[o].class = "Main"}

\* C26: the listener tree of every instance of a class decorated with
\* @CliMain is the tree that the corresponding direct calls build: new
\* CliHelper with the onNoMatch of the instance, then one command() call per
\* decorated property in the order of the declarations, with the executor,
\* the validator and the suggestor of the instance it is declared in.
C26_SameTreeAsDirect ==
  \A o \in Mains :
    Tree(nodes, objects, objects[o].listener, o) = Tree(Direct("Main"), <<>>, 1, 0)

\* the tree of the first instance made of the main class is the tree of
\* the direct calls
FirstInstanceAsDirect ==
  \A o \in Mains :
    (\A p \in Mains : o <= p) =>
      Tree(nodes, objects, objects[o].listener, o) = Tree(Direct("Main"), <<>>, 1, 0)

\* the first word of the text is complete (whitespace follows it) and the
\* matcher takes it: getSuggests goes on in the listener of the matcher
TakesWord(matcher, rest) ==
  /\ FirstWord(rest) # <<>>
  /\ Len(rest) > Len(FirstWord(rest))
  /\ IF matcher.type = "string" THEN matcher.val = FirstWord(rest)
     ELSE /\ strMatch(FirstWord(rest), matcher) # Null
          /\ Group(strMatch(FirstWord(rest), matcher), 0).val = FirstWord(rest)

\* C27: in one getSuggests run, the suggestor of a listener is called only
\* if the typed text ends at that listener: never for a listener one of
\* whose matchers took a complete word of the text it was given.
C27_SuggestorAtCurrentLevel ==
  Suggested =>
    \A c \in 1..Len(completion.calls) :
      LET call == completion.calls[c] IN
      call.ev = "suggestor" =>
        \A k \in 1..Len(nodes[call.node].listeners) :
          ~TakesWord(nodes[call.node].listeners[k].key, call.args[1].val)

\* the positions of the empty literal among the matchers of a listener
EmptyAt(listeners) == {e \in 1..Len(listeners) : listeners[e].key = Str(<<>>)}

\* C28: command() takes the empty string as a name like any other.  A
\* listener that has it never resolves its own executor unless its validator
\* returns false (or throws): match() always descends, through the empty
\* literal or a matcher registered before it, never through one registered
\* after it; through the empty literal the sub-listener gets the whole text
\* (minus leading whitespace).
C28_EmptyLiteral ==
  \A i \in 1..Len(tasks) :
    LET t == tasks[i]
        tr == t.trace
    IN \A a \in Calls(tr) :
         LET listeners == nodes[tr[a].node].listeners
             b == SubCall(tr, a)
         IN \A e \in EmptyAt(listeners) :
              Tries(t, a) =>
                /\ b # 0
                /\ \A j \in a..CallEnd(tr, a) : tr[j].ev \notin {"executor", "return"}
                /\ Consumed(listeners, tr[b].stack) <= e
                /\ (\A j \in 1..(e - 1) : ~Matches(listeners[j].key, tr[a].rest)) =>
                     /\ Item(tr, b) = Str(<<>>)
                     /\ tr[b].node = listeners[e].node
                     /\ tr[b].rest = trimLeft(tr[a].rest)
                     /\ tr[b].matches = Null

\* '' was registered before 'get' on the CliHelper: the line "get" went to
\* the listener of '' and was answered by its executor
C28_Witness ==
  /\ Len(nodes) = 3
  /\ keys(nodes[1].listeners) = <<Str(<<>>), Str(get)>>
  /\ \E i \in 1..Len(tasks) :
       /\ tasks[i].line = get
       /\ tasks[i].pc = "done"
       /\ tasks[i].node = 2
       /\ tasks[i].stack = <<Str(<<>>)>>
       /\ tasks[i].printed = << <<"cli: ">> \o <<"anything">> >>


\* C29: the text given to the match() of the CliHelper is the trimmed
\* concatenation of the submitted line and of the continuation lines that the
\* interface took since its previous dispatch, each marker replaced by a
\* space; a line that follows a dispatch is dispatched as it was submitted.
C29_DispatchedText ==
  \A i \in 1..Len(tasks) :
    LET t == tasks[i] IN
    t.trace # <<>> =>
      /\ t.trace[1].rest = trim(OneLine(t))
      /\ t.prior = <<>> => t.line = t.input


RECURSIVE Height(_)
\* the number of levels of sub-listeners below listener `this`
Height(this) ==
  LET listeners == nodes[this].listeners IN
  IF listeners = <<>> THEN 0
  ELSE 1 + (CHOOSE h \in {Height(listeners[k].node) : k \in 1..Len(listeners)} :
              \A k \in 1..Len(listeners) : Height(listeners[k].node) <= h)

\* the positions in a trace where an executor was resolved
Executors(tr) == {j \in 1..Len(tr) : tr[j].ev \in {"executor", "return"}}

\* C30: on a tree of listeners, a dispatch makes at most as many recursive
\* match() calls as the tree has levels, every step of match() either makes
\* the recursive call one level down or ends the descent, and the descent
\* ends with the executor of exactly one listener resolved, or of none when
\* a validator threw.
C30_TerminatesWithinDepth ==
  /\ [](\A i \in 1..Len(tasks) :
          LET t == tasks[i]
              tr == t.trace
          IN tr # <<>> =>
               /\ Cardinality(Calls(tr)) <= 1 + Height(1)
               /\ \A a \in Calls(tr) : Len(tr[a].stack) <= Height(1)
               /\ Cardinality(Executors(tr)) <= 1
               /\ t.pc # "match" =>
                    Cardinality(Executors(tr)) =
                      (IF \E a \in Calls(tr) : Raised(tr, a) THEN 0 ELSE 1))
  /\ [][\A i \in 1..Len(tasks) :
          Match(i) => \/ tasks'[i].pc # "match"
                      \/ /\ Len(tasks'[i].stack) = Len(tasks[i].stack) + 1
                         /\ Len(tasks'[i].stack) <= Height(1)]_vars

\* a line went down the two levels of the tree and was answered by one
\* executor; another was ended by the validator that threw
C30_Witness ==
  /\ Height(1) = 2
  /\ \E i \in 1..Len(tasks) :
       /\ tasks[i].pc = "done"
       /\ Cardinality(Calls(tasks[i].trace)) = 3
       /\ Cardinality(Executors(tasks[i].trace)) = 1
  /\ \E i \in 1..Len(tasks) :
       /\ tasks[i].pc \in {"done", "rejected"}
       /\ \E a \in Calls(tasks[i].trace) : Raised(tasks[i].trace, a)
       /\ Executors(tasks[i].trace) = {}


\* the interfaces that read stdin
Open == {k \in 1..rl_interface : ~closed[k]}

\* C31: whatever question() and listen() calls were made, at most one
\* readline interface (with its one 'line' handler) reads stdin, a submitted
\* line starts at most one handler, and the flag of a question that waits
\* for its answer stays set until a line answers it.
C31_OneInterface ==
  /\ [](Cardinality(Open) <= 1)
  /\ [][nlines' = nlines + 1 =>
          Len(tasks') <= Len(SelectSeq(tasks, InFlight)) + 1]_vars
  /\ [][(on_question /\ Answered # {} /\ nlines' = nlines) => on_question']_vars


\* C32: every completion request is answered through the callback that
\* readline gave to the completer, with the candidates and the line itself
\* or with an error, also while a continuation is being typed.
C32_CompleterResponds ==
  completion # Undefined =>
    /\ completion.via = "callback"
    /\ completion.err = Null => completion.value[2] = Str(completion.line)
    /\ completion.err # Null => completion.value = Undefined


\* the getSuggests() calls of the completion, in the order they were made
Enters == completion.entered

\* the call that made the call at position c: the last one before it that
\* is one level higher
Caller(c) ==
  LET above == {b \in 1..(c - 1) : Len(Enters[b].stack) = Len(Enters[c].stack) - 1}
  IN CHOOSE b \in above : \A d \in above : d <= b

\* the calls that the call at position b made for its sub-listeners
Callees(b) == {c \in 1..Len(Enters) : Enters[c].stack # <<>> /\ Caller(c) = b}

RECURSIVE Callers(_)
\* the calls on the way to the call at position c
Callers(c) ==
  IF Enters[c].stack = <<>> THEN {} ELSE {Caller(c)} \cup Callers(Caller(c))

\* the call was given a text whose first token is empty
EmptyToken(e) == FirstWord(e.rest) = <<>>

\* C33: a getSuggests() call given an empty first token and stop_on_next =
\* true enters no sub-listener, returns no match and does not call its
\* suggestor; so on the way to any call, at most one call with an empty first
\* token entered its sub-listeners.
C33_OneEmptyLevel ==
  Suggested =>
    \A c \in 1..Len(Enters) :
      LET e == Enters[c] IN
      /\ (EmptyToken(e) /\ e.stop_on_next) =>
           /\ Callees(c) = {}
           /\ e.matches = <<>>
           /\ \A j \in 1..Len(completion.calls) :
                ~(completion.calls[j].node = e.node
                  /\ completion.calls[j].args = <<Str(e.rest), Arr(e.stack)>>)
      /\ Cardinality({b \in Callers(c) : EmptyToken(Enters[b])}) <= 1
      /\ (EmptyToken(e) /\ Callees(c) # {}) =>
           \A b \in Callers(c) : ~EmptyToken(Enters[b])

\* tab on the empty line: the CliHelper entered the listener of "get", which
\* has a sub-listener and a suggestor and left both alone
C33_Witness ==
  /\ Suggested
  /\ completion.line = <<>>
  /\ Len(Enters) = 2
  /\ EmptyToken(Enters[1]) /\ ~Enters[1].stop_on_next
  /\ Enters[2].stack = <<Str(get)>>
  /\ EmptyToken(Enters[2]) /\ Enters[2].stop_on_next
  /\ nodes[Enters[2].node].listeners # <<>>
  /\ nodes[Enters[2].node].suggestor # Undefined
  /\ completion.matches = <<Str(get)>>


\* the matcher that a stack item stands for
KeyOf(item) == IF item.type = "Array" THEN item.items[1] ELSE item

RECURSIVE Walk(_, _)
\* the listener reached from listener `this` by the matchers of a stack, one
\* level per item; 0 when a matcher is not registered on the way
Walk(this, stack) ==
  IF stack = <<>> THEN this
  ELSE LET listeners == nodes[this].listeners
           at == {k \in 1..Len(listeners) : listeners[k].key = KeyOf(Head(stack))}
       IN IF at = {} THEN 0
          ELSE Walk(listeners[CHOOSE k \in at : TRUE].node, Tail(stack))

\* a stack item is a literal, or a pattern with the array of its match
IsStackItem(item) ==
  \/ item.type = "string"
  \/ /\ item.type = "Array" /\ Len(item.items) = 2
     /\ item.items[1].type = "RegExp"
     /\ item.items[2].type = "RegExpMatchArray"

\* C34: the stack of every match() and getSuggests() call is the sequence of
\* the matchers consumed from the CliHelper down to the listener called, one
\* item per level (a literal, or a pattern with its match array): it is empty
\* for the CliHelper, each recursive call gets the stack of its caller plus
\* one item, and an executor or a suggestor is given the stack its own call
\* received, whatever calls were made for sub-listeners in between.
C34_StackIsPath ==
  /\ \A i \in 1..Len(tasks) :
       LET tr == tasks[i].trace IN
       /\ \A a \in Calls(tr) :
            /\ Walk(1, tr[a].stack) = tr[a].node
            /\ Len(tr[a].stack) = Cardinality({b \in Calls(tr) : b < a})
            /\ \A s \in 1..Len(tr[a].stack) : IsStackItem(tr[a].stack[s])
            /\ SubCall(tr, a) # 0 =>
                 LET b == SubCall(tr, a) IN
                 /\ SubSeq(tr[b].stack, 1, Len(tr[a].stack)) = tr[a].stack
                 /\ Item(tr, b).type = "Array" =>
                      Item(tr, b).items[2] = strMatch(tr[a].rest, KeyOf(Item(tr, b)))
       /\ \A j \in 1..Len(tr) :
            tr[j].ev = "executor" =>
              /\ tr[j].args[2] = Arr(tr[CallOf(tr, j)].stack)
              /\ Walk(1, tr[j].args[2].items) = tr[j].node
  /\ Suggested =>
       /\ \A c \in 1..Len(Enters) :
            /\ Walk(1, Enters[c].stack) = Enters[c].node
            /\ \A s \in 1..Len(Enters[c].stack) : IsStackItem(Enters[c].stack[s])
            /\ Enters[c].stack # <<>> =>
                 /\ SubSeq(Enters[c].stack, 1, Len(Enters[c].stack) - 1) = Enters[Caller(c)].stack
                 /\ Enters[Caller(c)].node # 0
       /\ Enters[1].stack = <<>> /\ Enters[1].node = 1
       /\ \A j \in 1..Len(completion.calls) :
            LET call == completion.calls[j] IN
            /\ call.args[2].type = "Array"
            /\ Walk(1, call.args[2].items) = call.node
            /\ \E c \in 1..Len(Enters) :
                 /\ Enters[c].node = call.node
                 /\ Arr(Enters[c].stack) = call.args[2]
                 /\ Str(Enters[c].rest) = call.args[1]

\* the executor of the listener of "pies" under "get" got ["get", "pies"],
\* and the suggestor of the listener of "get" got ["get"] after a call was
\* made for "pies" with ["get", "pies"]
C34_Witness ==
  /\ \E i \in 1..Len(tasks) : \E j \in 1..Len(tasks[i].trace) :
       /\ tasks[i].trace[j].ev = "executor"
       /\ tasks[i].trace[j].args[2] = Arr(<<Str(get), Str(pies)>>)
  /\ Suggested
  /\ \E c \in 1..Len(Enters) : Enters[c].stack = <<Str(get), Str(pies)>>
  /\ \E j \in 1..Len(completion.calls) :
       /\ completion.calls[j].ev = "suggestor"
       /\ completion.calls[j].args[2] = Arr(<<Str(get)>>)


\* C35: the listeners change in the steps that are command() calls and in no
\* other: no line, dispatch, completion, question or close step changes the
\* sub-listener map (keys, order, targets), the executor, the validator or the
\* suggestor of any listener, and none adds or removes a listener.
C35_TreeReadOnly ==
  [][(nodes' # nodes) <=> (ncommands' = ncommands + 1)]_vars

\* listeners were registered, then a line was dispatched under "get", a
\* completion was computed, a question was asked and the program closed
C35_Witness ==
  /\ Len(nodes) = 3
  /\ \E i \in 1..Len(tasks) : tasks[i].pc = "done" /\ tasks[i].stack # <<>>
  /\ Suggested /\ Len(Enters) >= 2
  /\ promises # <<>>
  /\ exited


\* the whitespace typed in rest after its first n characters; one space when
\* there is none
SepAfter(rest, n) ==
  LET run == {0} \cup {m \in 1..(Len(rest) - n) : \A j \in 1..m : IsSpace(rest[n + j])}
      longest == CHOOSE m \in run : \A o \in run : o <= m
  IN IF longest = 0 THEN space ELSE SubSeq(rest, n + 1, n + longest)

\* the matches that a call adds for a matcher: head, then the matches of the
\* call made for the sub-listener, each after prefix and sep
Contribution(head, prefix, sep, sub) ==
  <<head>> \o [j \in 1..Len(sub) |->
                 Str(prefix \o sep \o (IF sub[j].type = "string" THEN sub[j].val
                                      ELSE <<"undefined">>))]

\* seq holds part as consecutive elements
Holds(seq, part) ==
  \E p \in 0..(Len(seq) - Len(part)) : SubSeq(seq, p + 1, p + Len(part)) = part

\* the calls that the call at position c made with item added to its stack
CalleesFor(c, item) == {b \in Callees(c) : Enters[b].stack = Append(Enters[c].stack, item)}

\* C36: in a getSuggests() call that does not pass its matchers over, a
\* literal matcher is entered iff it starts with the first token of rest and
\* rest is empty or has whitespace at the position where the literal ends;
\* the call made for its sub-listener gets the text after that position
\* minus its leading whitespace, and the call returns the literal followed by
\* each match of the sub-listener's call prefixed with the literal and the
\* whitespace typed there (one space if none).
C36_LiteralCandidate ==
  Suggested =>
    \A c \in 1..Len(Enters) :
      LET e == Enters[c]
          listeners == nodes[e.node].listeners
      IN ~(EmptyToken(e) /\ e.stop_on_next) =>
           \A k \in 1..Len(listeners) :
             listeners[k].key.type = "string" =>
               LET lit == listeners[k].key.val
                   candidate ==
                     /\ Len(FirstWord(e.rest)) <= Len(lit)
                     /\ SubSeq(lit, 1, Len(FirstWord(e.rest))) = FirstWord(e.rest)
                     /\ Len(e.rest) > Len(lit) => IsSpace(e.rest[Len(lit) + 1])
                   made == CalleesFor(c, Str(lit))
               IN IF candidate
                  THEN /\ Cardinality(made) = 1
                       /\ \A b \in made :
                            /\ Enters[b].node = listeners[k].node
                            /\ IsLeftTrimOf(Enters[b].rest,
                                            SubSeq(e.rest, Len(lit) + 1, Len(e.rest)))
                            /\ Holds(e.matches,
                                     Contribution(Str(lit), lit, SepAfter(e.rest, Len(lit)),
                                                  Enters[b].matches))
                  ELSE made = {}

\* for "get p" the listener of "get" was entered and "get pies" is
\* returned; the listener of "pies" on the CliHelper was not entered
C36_Witness ==
  /\ Suggested
  /\ \E k \in 1..Len(nodes[1].listeners) : nodes[1].listeners[k].key = Str(get)
  /\ \E k \in 1..Len(nodes[1].listeners) : nodes[1].listeners[k].key = Str(pies)
  /\ completion.line = get \o space \o <<"p">>
  /\ \A c \in 1..Len(Enters) : Enters[c].stack # <<Str(pies)>>
  /\ \E j \in 1..Len(completion.matches) :
       completion.matches[j] = Str(get \o space \o pies)


\* the calls that the call at position c made for the pattern re
CalleesForPattern(c, re) ==
  {b \in Callees(c) :
     LET item == Enters[b].stack[Len(Enters[b].stack)] IN
     item.type = "Array" /\ item.items[1] = re}

\* C37: in a getSuggests() call that does not pass its matchers over, a
\* pattern matcher is entered iff the pattern matches in the first token of
\* rest and rest is empty or has whitespace right after the matched text,
\* wherever in the token the match lies.
C37_PatternCandidate ==
  Suggested =>
    \A c \in 1..Len(Enters) :
      LET e == Enters[c]
          listeners == nodes[e.node].listeners
          token == FirstWord(e.rest)
      IN ~(EmptyToken(e) /\ e.stop_on_next) =>
           \A k \in 1..Len(listeners) :
             listeners[k].key.type = "RegExp" =>
               LET re == listeners[k].key
                   spans == {p \in 0..Len(token) : OccursAt(re, token, p)}
                   first == CHOOSE p \in spans : \A q \in spans : p <= q
                   after == first + MatchedLen(re, token, first)
                   candidate ==
                     /\ spans # {}
                     /\ Len(e.rest) > after => IsSpace(e.rest[after + 1])
               IN candidate <=> CalleesForPattern(c, re) # {}


\* C38: every element of the list that a getSuggests() call returns is a
\* string: a pattern that has no capture group adds no bare candidate, and
\* the completer's callback is not given an error.
C38_AllStrings ==
  Suggested =>
    /\ \A c \in 1..Len(Enters) : \A j \in 1..Len(Enters[c].matches) :
         Enters[c].matches[j].type = "string"
    /\ completion.err = Null


RECURSIVE Fresh(_, _)
\* the names of a command() call that the listener does not have yet, each
\* once, in the order of the call
Fresh(had, names) ==
  IF names = <<>> THEN <<>>
  ELSE IF \E k \in 1..Len(had) : had[k] = Head(names)
  THEN Fresh(had, Tail(names))
  ELSE <<Head(names)>> \o Fresh(Append(had, Head(names)), Tail(names))

\* C39: the matchers of a listener stay in the order of their first
\* registration: a command() call leaves the matchers that the listener had
\* where they were, also those it registers again, and puts the new ones
\* after them in the order of the call; no matcher is held twice, and the
\* matchers of the other listeners are left alone.
C39_FirstRegistrationOrder ==
  [][\A this \in 1..Len(nodes) : \A d \in Declarations :
       Command(this, d) =>
         /\ keys(nodes'[this].listeners) =
              keys(nodes[this].listeners) \o Fresh(keys(nodes[this].listeners), d.command_name)
         /\ \A j, k \in 1..Len(nodes'[this].listeners) :
              nodes'[this].listeners[j].key = nodes'[this].listeners[k].key => j = k
         /\ \A n \in 1..Len(nodes) :
              n # this => keys(nodes'[n].listeners) = keys(nodes[n].listeners)]_vars

\* command(['pies', 'get'], ...) then command('pies', ...) on the CliHelper:
\* "pies" is still tried before "get", now with the second listener
C39_Witness ==
  /\ Len(nodes) = 3
  /\ nodes[1].listeners = <<[key |-> Str(pies), node |-> 3], [key |-> Str(get), node |-> 2]>>


\* the instance that a function of a listener was made in or bound to, in a
\* set; empty for anything else
InstanceOf(f) == IF "self" \in DOMAIN f THEN {f.self} ELSE {}

\* C40: the listener of a @LocalCommand has the method of an instance as its
\* executor; its validator and its suggestor, when given by method name, are
\* methods of that same instance, for the first instance of the class and
\* for every later one.
C40_BoundToOwnInstance ==
  \A n \in 1..Len(nodes) :
    \A o \in InstanceOf(nodes[n].executor) :
      /\ InstanceOf(nodes[n].validator) \subseteq {o}
      /\ InstanceOf(nodes[n].suggestor) \subseteq {o}

====
